---- MODULE Spec2Model ----
(***************************************************************************)
(* Day-boundary, work-session phase and recurrence-label logic of the      *)
(* notebook frontend (app/lib/dateUtils.ts, app/lib/dayBoundaryHelpers.ts, *)
(* app/lib/recurrenceLabels.ts), and the skip / complete actions on a       *)
(* recurring todo (app/api/todos/[documentId]/skip and .../complete).      *)
(*                                                                         *)
(* A JavaScript Date is modelled by its epoch value in whole minutes since *)
(* 1970-01-01T00:00Z.  Its "local" getters (getHours, getDate, ...) read   *)
(* the epoch value shifted by the offset of the runtime's own timezone     *)
(* (sysTimezone); its UTC getters read the epoch value itself.             *)
(* A string is a TLA+ string; a calendar date is the string "YYYY-MM-DD".  *)
(* A string that is parsed is a sequence of one-character strings.         *)
(* The two route handlers are not part of the sources at hand: they are    *)
(* modelled from the written specification and from what their test file   *)
(* expects of them, with a displayDate held as a count of days.            *)
(* The module also covers the layout preference kept in localStorage       *)
(* (app/contexts/LayoutRulesetContext.tsx), the recurring-review layout    *)
(* and the proxy in front of the pages.                                    *)
(***************************************************************************)
EXTENDS Integers, Sequences, FiniteSets, TLC

VARIABLES
    timezone,            \* getTimezone(): the configured IANA timezone
    sysTimezone,         \* the timezone of the JavaScript runtime itself
    dayBoundaryHour,     \* getDayBoundaryHour(): the configured boundary hour
    visibilityMinutes,   \* the configured visibility window, in minutes
    clock,               \* new Date(): the current instant
    tzRead,              \* `const tz = getTimezone()` of the last call
    boundaryRead,        \* `const dayBoundaryHour = getDayBoundaryHour()` of the last call
    workSession,         \* the timestamp of the logged work session
    effectiveDay,        \* getEffectiveDayForTimestamp(clock, dayBoundaryHour)
    sessionDay,          \* getEffectiveDayForTimestamp(workSession, dayBoundaryHour)
    phase,               \* getWorkedOnPhase(workSession, clock, ...)
    completionDate,      \* getCompletionDateForRecurrence(clock)
    todayForRecurrence,  \* getTodayForRecurrence() called at clock
    todo,                \* the recurrence fields of the todo being described
    prefix,              \* getRecurrencePrefix(todo)
    skipTodo,            \* the stored occurrence the skip request names
    completeTodo,        \* the stored occurrence the complete request names
    skipNewTodo,         \* the occurrence the skip request created
    completeNewTodo,     \* the occurrence the complete request created
    skipResponse,        \* HTTP status of the skip request, 0 before it is made
    completeResponse,    \* HTTP status of the complete request, 0 before
    skipError,           \* error message of the skip response, "" if none
    completeError,       \* error message of the complete response, "" if none
    skipCalls,           \* writes the skip request sent to the CMS, by method
    completeCalls,       \* writes the complete request sent to the CMS, by method
    num,                 \* the argument of the last getOrdinal call, 0 before
    ordinal,             \* getOrdinal(num)
    dateString,          \* the argument of the last parseInEST call, as characters
    parsed,              \* the outcome of parseInEST(dateString)
    reformatted,         \* toISODateInEST(parseInEST(dateString))
    localStorage,        \* the browser's localStorage, by key
    nowMs,               \* Date.now(), in milliseconds
    hasWindow,           \* typeof window !== 'undefined': the code runs in a browser
    initialStored,       \* `const stored = localStorage.getItem(STORAGE_KEY)` of the first render
    mounted,             \* LayoutRulesetProviderInternal has rendered once
    selectedRulesetId,   \* the React state selectedRulesetId
    isHydrated,          \* the React state isHydrated
    closure,             \* what the last render gave the effects: state, pathname, searchParams
    pathname,            \* usePathname(): the path of the page shown
    locationView,        \* the `view` parameter of window.location.search
    layoutEffectDue,     \* the useLayoutEffect callback has yet to run for the last render
    effectDue,           \* the useEffect callback has yet to run for the last render
    replacePending,      \* the router.replace navigation that has not finished yet
    replaceCount,        \* router.replace calls since selectedRulesetId last changed
    userSteps,           \* how many times the user has acted on the page
    transformedData,     \* the transformedData prop of RecurringReviewLayout
    reviewOutput,        \* what RecurringReviewLayout rendered
    cookies,             \* the browser's auth_token cookie
    request,             \* the last request the proxy handled
    response             \* the proxy's answer to it

vars == <<timezone, sysTimezone, dayBoundaryHour, visibilityMinutes, clock,
          tzRead, boundaryRead,
          workSession, effectiveDay, sessionDay, phase, completionDate,
          todayForRecurrence, todo, prefix, skipTodo, completeTodo, skipNewTodo,
          completeNewTodo, skipResponse, completeResponse, skipError,
          completeError, skipCalls, completeCalls, num, ordinal, dateString, parsed,
          reformatted, localStorage, nowMs, hasWindow, initialStored, mounted, selectedRulesetId,
          isHydrated, closure, pathname, locationView, layoutEffectDue, effectDue,
          replacePending, replaceCount, userSteps, transformedData, reviewOutput,
          cookies, request, response>>

timeVars == <<timezone, sysTimezone, dayBoundaryHour, visibilityMinutes, clock,
              tzRead, boundaryRead,
              workSession, effectiveDay, sessionDay, phase, completionDate,
              todayForRecurrence>>

labelVars == <<todo, prefix>>

pureVars == <<num, ordinal, dateString, parsed, reformatted>>

routeVars == <<skipTodo, completeTodo, skipNewTodo, completeNewTodo, skipResponse,
               completeResponse, skipError, completeError, skipCalls, completeCalls>>

layoutVars == <<localStorage, nowMs, hasWindow, initialStored, mounted, selectedRulesetId, isHydrated,
                closure, pathname, locationView, layoutEffectDue, effectDue,
                replacePending, replaceCount, userSteps>>

reviewVars == <<transformedData, reviewOutput>>

proxyVars == <<cookies, request, response>>

uiVars == <<layoutVars, reviewVars, proxyVars>>

-----------------------------------------------------------------------------
(* Bounds of the model.                                                    *)

\* The clock runs over HorizonDays days, starting at FirstDay 00:00Z.
HorizonDays == 2

\* 2025-12-31, as a count of days since 1970-01-01: the window spans the
\* turn of the year and the test dates 2026-01-01 .. 2026-01-02.
FirstDay == 20453

MinutesPerDay == 24 * 60

\* The minutes of each hour at which the clock is observed.
MinuteSamples == {0, 30, 59}

Instants ==
    { (FirstDay + d) * MinutesPerDay + h * 60 + m :
        d \in 0 .. (HorizonDays - 1), h \in 0 .. 23, m \in MinuteSamples }

\* Timezones of the model.  None of them changes its UTC offset inside the
\* window, so an offset is a function of the zone alone.
Timezones == {"UTC", "America/New_York", "Asia/Tokyo"}

\* The day-boundary hours the settings page offers.
BoundaryHours == 0 .. 23

\* Visibility windows the settings page offers (a subset).
VisibilityOptions == {0, 60, 24 * 60}

-----------------------------------------------------------------------------
(* The JavaScript Date and date-fns / date-fns-tz primitives the code uses. *)

\* UTC offset of a zone in minutes (local = UTC + offset), inside the window.
tzOffset(tz) ==
    CASE tz = "UTC" -> 0
      [] tz = "America/New_York" -> -(5 * 60)
      [] tz = "Asia/Tokyo" -> 9 * 60

\* Proleptic Gregorian calendar fields of a day count since 1970-01-01.
CivilFromDays(z) ==
    LET s    == z + 719468
        era  == s \div 146097
        doe  == s - era * 146097
        yoe  == (doe - (doe \div 1460) + (doe \div 36524) - (doe \div 146096)) \div 365
        doy  == doe - (365 * yoe + (yoe \div 4) - (yoe \div 100))
        mp   == (5 * doy + 2) \div 153
        d    == doy - ((153 * mp + 2) \div 5) + 1
        m    == IF mp < 10 THEN mp + 3 ELSE mp - 9
        y    == yoe + era * 400 + (IF m <= 2 THEN 1 ELSE 0)
    IN  [year |-> y, month |-> m, day |-> d]

\* Date.prototype.getUTCHours
getUTCHours(date) == (date \div 60) % 24

\* Date.prototype.setUTCDate(getUTCDate() - 1): one UTC day back.
setUTCDatePrev(date) == date - MinutesPerDay

\* Date.prototype.getHours: hour of the runtime-local wall clock.
getHours(date, sys) == ((date + tzOffset(sys)) \div 60) % 24

\* Date.prototype.getFullYear / getMonth (zero-based) / getDate, runtime-local.
getFullYear(date, sys) == CivilFromDays((date + tzOffset(sys)) \div MinutesPerDay).year
getMonth(date, sys) == CivilFromDays((date + tzOffset(sys)) \div MinutesPerDay).month - 1
getDate(date, sys) == CivilFromDays((date + tzOffset(sys)) \div MinutesPerDay).day

\* String(n).padStart(2, '0')
padStart2(n) == IF n < 10 THEN "0" \o ToString(n) ELSE ToString(n)

\* date-fns-tz toZonedTime: a Date whose runtime-local fields are the wall
\* clock of `date` in zone tz.
toZonedTime(date, tz, sys) == date + tzOffset(tz) - tzOffset(sys)

\* date-fns-tz fromZonedTime of a wall-clock time given as (day count, hour):
\* the instant at which zone tz shows that wall clock.
fromZonedTime(dayCount, hour, tz) == dayCount * MinutesPerDay + hour * 60 - tzOffset(tz)

\* date-fns-tz format(date, 'yyyy-MM-dd', {timeZone}): the pattern holds no
\* zone token, so the runtime-local fields of the Date are printed.
formatTzDate(date, sys) ==
    ToString(getFullYear(date, sys)) \o "-" \o padStart2(getMonth(date, sys) + 1)
        \o "-" \o padStart2(getDate(date, sys))

\* date-fns-tz format(date, 'H', {timeZone}) followed by parseInt.
formatTzHour(date, sys) == getHours(date, sys)

\* date-fns addDays: setDate(getDate() + amount) on the runtime-local fields.
addDaysFn(date, amount) == date + amount * MinutesPerDay

-----------------------------------------------------------------------------
(* app/lib/dateUtils.ts                                                     *)

\* A read of the timezone that keeps the value an earlier call read.
readTimezoneRetained(configured, retained) == retained

\* `const tz = getTimezone()` at the head of a call: the value configured
\* now, whatever an earlier call read.
readTimezone(configured, retained) == configured

\* `const dayBoundaryHour = getDayBoundaryHour()` at the head of a call.
readDayBoundaryHour(configured, retained) == configured

\* formatInEST(date, 'yyyy-MM-dd'): the date is converted to the configured
\* zone and its runtime-local year, month and day are printed, zero padded.
formatInEST(date, tz, sys) ==
    LET zonedDate == toZonedTime(date, tz, sys)
        year      == getFullYear(zonedDate, sys)
        month     == padStart2(getMonth(zonedDate, sys) + 1)
        day       == padStart2(getDate(zonedDate, sys))
    IN  ToString(year) \o "-" \o month \o "-" \o day

toISODateInEST(date, tz, sys) == formatInEST(date, tz, sys)

\* An Invalid Date (time value NaN) and a Date with time value t.
InvalidDate == [valid |-> FALSE, time |-> 0]
ValidDate(t) == [valid |-> TRUE, time |-> t]

Digits == {"0", "1", "2", "3", "4", "5", "6", "7", "8", "9"}

DigitVal(c) ==
    CASE c = "0" -> 0 [] c = "1" -> 1 [] c = "2" -> 2 [] c = "3" -> 3 [] c = "4" -> 4
      [] c = "5" -> 5 [] c = "6" -> 6 [] c = "7" -> 7 [] c = "8" -> 8 [] c = "9" -> 9

\* \d{n} at position i of str, and its parseInt value.
isDigitsAt(str, i, n) ==
    /\ Len(str) >= i + n - 1
    /\ \A k \in i .. (i + n - 1) : str[k] \in Digits

RECURSIVE parseIntAt(_, _, _)
parseIntAt(str, i, n) ==
    IF n = 0 THEN 0
    ELSE 10 * parseIntAt(str, i, n - 1) + DigitVal(str[i + n - 1])

\* Days of month m (1 .. 12) of year y, and of the whole year.
utcDaysInMonth(y, m) ==
    LET leap == (y % 4 = 0 /\ y % 100 # 0) \/ y % 400 = 0
    IN  CASE m = 2 -> IF leap THEN 29 ELSE 28
          [] m \in {4, 6, 9, 11} -> 30
          [] OTHER -> 31

\* Day count of y-m-d (Date.UTC / setUTCFullYear), m in 1 .. 12.
utcDayCount(y, m, d) ==
    LET yy  == IF m <= 2 THEN y - 1 ELSE y
        era == yy \div 400
        yoe == yy - era * 400
        mp  == IF m > 2 THEN m - 3 ELSE m + 9
        doy == ((153 * mp + 2) \div 5) + d - 1
        doe == yoe * 365 + (yoe \div 4) - (yoe \div 100) + doy
    IN  era * 146097 + doe - 719468

\* date-fns-tz toDate, parseYear: /^(\d{4})/ takes the year and leaves the
\* rest; /^(\d{2})$/ is a century.  year -1 stands for "no year".
parseYear(str) ==
    IF isDigitsAt(str, 1, 4)
      THEN [year |-> parseIntAt(str, 1, 4), rest |-> SubSeq(str, 5, Len(str))]
    ELSE IF Len(str) = 2 /\ isDigitsAt(str, 1, 2)
      THEN [year |-> 100 * parseIntAt(str, 1, 2), rest |-> <<>>]
    ELSE [year |-> -1, rest |-> <<>>]

\* date-fns-tz toDate, parseDate: the rest after the year is empty (YYYY),
\* -MM, -?DDD or -?MM-?DD; the fields are validated against the calendar.
\* The result is a day count, or -1 for null / Invalid Date.
parseDate(rest, year) ==
    LET hy == IF Len(rest) >= 1 /\ rest[1] = "-" THEN 1 ELSE 0
        n  == Len(rest)
    IN  IF year = -1 THEN -1
        ELSE IF n = 0 THEN utcDayCount(year, 1, 1)
        ELSE IF n = 3 /\ hy = 1 /\ isDigitsAt(rest, 2, 2)
          THEN LET m == parseIntAt(rest, 2, 2)
               IN  IF m >= 1 /\ m <= 12 THEN utcDayCount(year, m, 1) ELSE -1
        ELSE IF n = 3 + hy /\ isDigitsAt(rest, 1 + hy, 3)
          THEN LET doy == parseIntAt(rest, 1 + hy, 3)
                   len == utcDayCount(year + 1, 1, 1) - utcDayCount(year, 1, 1)
               IN  IF doy >= 1 /\ doy <= len THEN utcDayCount(year, 1, 1) + doy - 1
                   ELSE -1
        ELSE IF isDigitsAt(rest, 1 + hy, 2)
                  /\ LET hm == IF Len(rest) >= 3 + hy /\ rest[3 + hy] = "-" THEN 1 ELSE 0
                     IN  n = 4 + hy + hm /\ isDigitsAt(rest, 3 + hy + hm, 2)
          THEN LET hm == IF rest[3 + hy] = "-" THEN 1 ELSE 0
                   m  == parseIntAt(rest, 1 + hy, 2)
                   d  == parseIntAt(rest, 3 + hy + hm, 2)
               IN  IF m >= 1 /\ m <= 12 /\ d >= 1 /\ d <= utcDaysInMonth(year, m)
                     THEN utcDayCount(year, m, d)
                     ELSE -1
        ELSE -1

\* date-fns-tz fromZonedTime of the string `${dateString}T00:00:00`: the
\* date part is parsed by toDate and read as a wall clock of zone tz; what
\* cannot be parsed gives an Invalid Date.
fromZonedTimeString(str, tz) ==
    LET y == parseYear(str)
        n == parseDate(y.rest, y.year)
    IN  IF n = -1 THEN InvalidDate ELSE ValidDate(fromZonedTime(n, 0, tz))

\* parseInEST reading the string as midnight UTC, whatever the zone.
parseInESTAsUTC(str, tz) ==
    [threw |-> FALSE, date |-> fromZonedTimeString(str, "UTC")]

\* parseInEST(dateString): returns what fromZonedTime returns; nothing is
\* thrown.
parseInEST(str, tz) ==
    [threw |-> FALSE, date |-> fromZonedTimeString(str, tz)]

\* The day count of the runtime-local calendar date of a Date: the date that
\* a 'yyyy-MM-dd' string printed from it denotes when it is parsed again.
localDayCount(date, sys) == (date + tzOffset(sys)) \div MinutesPerDay

\* getTodayForRecurrence with the boundary hour itself counted as the old day.
getTodayForRecurrenceInclusive(current, boundary, tz, sys) ==
    LET now             == toZonedTime(current, tz, sys)
        todayAtBoundary == fromZonedTime(localDayCount(now, sys), boundary, tz)
    IN  IF formatTzHour(now, sys) <= boundary
          THEN addDaysFn(todayAtBoundary, -1)
          ELSE todayAtBoundary

\* getTodayForRecurrence(), called when the clock reads `current`.
getTodayForRecurrence(current, boundary, tz, sys) ==
    LET now             == toZonedTime(current, tz, sys)
        todayDateStr    == localDayCount(now, sys)
        todayAtBoundary == fromZonedTime(todayDateStr, boundary, tz)
        currentHour     == formatTzHour(now, sys)
    IN  IF currentHour < boundary
          THEN addDaysFn(todayAtBoundary, -1)
          ELSE todayAtBoundary

\* getCompletionDateForRecurrence reading the hour with getUTCHours, as
\* getEffectiveDayForTimestamp does.
getCompletionDateForRecurrenceUTCHours(completionTime, boundary, tz, sys) ==
    LET zonedTime == toZonedTime(completionTime, tz, sys)
    IN  IF getUTCHours(zonedTime) < boundary
          THEN formatTzDate(addDaysFn(zonedTime, -1), sys)
          ELSE formatTzDate(zonedTime, sys)

\* getCompletionDateForRecurrence(completionTime)
getCompletionDateForRecurrence(completionTime, boundary, tz, sys) ==
    LET zonedTime      == toZonedTime(completionTime, tz, sys)
        completionHour == getHours(zonedTime, sys)
    IN  IF completionHour < boundary
          THEN formatTzDate(addDaysFn(zonedTime, -1), sys)
          ELSE formatTzDate(zonedTime, sys)

-----------------------------------------------------------------------------
(* app/lib/dayBoundaryHelpers.ts                                            *)

\* getEffectiveDayForTimestamp(timestamp, dayBoundaryHour)
getEffectiveDayForTimestamp(timestamp, boundary, tz, sys) ==
    LET zonedTime    == toZonedTime(timestamp, tz, sys)
        adjustedDate == IF getUTCHours(zonedTime) < boundary
                          THEN setUTCDatePrev(zonedTime)
                          ELSE zonedTime
    IN  toISODateInEST(adjustedDate, tz, sys)

\* getWorkedOnPhase with the visibility window tested before the day.
getWorkedOnPhaseWindowFirst(workSessionTimestamp, now, visibility, boundary, tz, sys) ==
    IF now - workSessionTimestamp <= visibility THEN 1
    ELSE IF getEffectiveDayForTimestamp(workSessionTimestamp, boundary, tz, sys)
              # getEffectiveDayForTimestamp(now, boundary, tz, sys) THEN 3
    ELSE 2

\* getWorkedOnPhase with an exclusive visibility window.
getWorkedOnPhaseExclusive(workSessionTimestamp, now, visibility, boundary, tz, sys) ==
    IF getEffectiveDayForTimestamp(workSessionTimestamp, boundary, tz, sys)
         # getEffectiveDayForTimestamp(now, boundary, tz, sys) THEN 3
    ELSE IF now - workSessionTimestamp < visibility THEN 1
    ELSE 2

\* getWorkedOnPhase(workSessionTimestamp, now, visibilityMinutes, dayBoundaryHour)
getWorkedOnPhase(workSessionTimestamp, now, visibility, boundary, tz, sys) ==
    LET sessionTime         == workSessionTimestamp
        minutesSinceSession == now - sessionTime
        sessDay             == getEffectiveDayForTimestamp(sessionTime, boundary, tz, sys)
        currentDay          == getEffectiveDayForTimestamp(now, boundary, tz, sys)
    IN  IF sessDay # currentDay THEN 3
        ELSE IF minutesSinceSession <= visibility THEN 1
        ELSE 2

-----------------------------------------------------------------------------
(* app/lib/recurrenceLabels.ts                                              *)

\* A nullable numeric field of a Todo: null, undefined or a number.
Null == [kind |-> "null", val |-> 0]
Undefined == [kind |-> "undefined", val |-> 0]
Num(n) == [kind |-> "number", val |-> n]

\* JavaScript's `x != null`: false for null and for undefined.
notNull(field) == field.kind = "number"

\* JavaScript's remainder: the sign follows the dividend.
jsRem(a, b) == IF a >= 0 THEN a % b ELSE -((-a) % b)

\* The conversion the regression tests guard against: dayOfWeek - 1.
isoToDayIndexMinusOne(dayOfWeek) == dayOfWeek - 1

\* ISO 8601 weekday (1 = monday .. 7 = sunday) to getDayName's index:
\* dayOfWeek % 7.
isoToDayIndex(dayOfWeek) == jsRem(dayOfWeek, 7)

\* getDayName(dayIndex), 0 = sunday .. 6 = saturday
getDayName(dayIndex) ==
    LET days == <<"sunday", "monday", "tuesday", "wednesday", "thursday",
                  "friday", "saturday">>
    IN  IF dayIndex < 0 \/ dayIndex > 6 THEN "unknown" ELSE days[dayIndex + 1]

\* getOrdinal without the tests for 11, 12 and 13.
getOrdinalNoTeens(n) ==
    LET j == jsRem(n, 10)
    IN  IF j = 1 THEN ToString(n) \o "st"
        ELSE IF j = 2 THEN ToString(n) \o "nd"
        ELSE IF j = 3 THEN ToString(n) \o "rd"
        ELSE ToString(n) \o "th"

\* getOrdinal(num)
getOrdinal(n) ==
    LET j == jsRem(n, 10)
        k == jsRem(n, 100)
    IN  IF j = 1 /\ k # 11 THEN ToString(n) \o "st"
        ELSE IF j = 2 /\ k # 12 THEN ToString(n) \o "nd"
        ELSE IF j = 3 /\ k # 13 THEN ToString(n) \o "rd"
        ELSE ToString(n) \o "th"

\* getMonthName(monthIndex), 1 = january .. 12 = december
getMonthName(monthIndex) ==
    LET months == <<"january", "february", "march", "april", "may", "june",
                    "july", "august", "september", "october", "november",
                    "december">>
    IN  IF monthIndex < 1 \/ monthIndex > 12 THEN "unknown" ELSE months[monthIndex]

\* A prefix that repeats the name of the recurrence type.
noPrefixTypeName(recurrenceType) == recurrenceType

\* The astronomical cases and the default of getRecurrencePrefix's switch:
\* return "".
noPrefix(recurrenceType) == ""

\* The "monthly day" case with the weekday tested against getDayName's own
\* range 0 .. 6 instead of the ISO range 1 .. 7.
monthlyDayPrefixIndexRange(t) ==
    IF notNull(t.recurrenceWeekOfMonth) /\ notNull(t.recurrenceDayOfWeekMonthly)
         /\ t.recurrenceDayOfWeekMonthly.val >= 0
         /\ t.recurrenceDayOfWeekMonthly.val <= 6
      THEN getOrdinal(t.recurrenceWeekOfMonth.val) \o " "
             \o getDayName(isoToDayIndex(t.recurrenceDayOfWeekMonthly.val))
      ELSE "monthly"

\* The "monthly day" case of getRecurrencePrefix's switch.
monthlyDayPrefix(t) ==
    IF notNull(t.recurrenceWeekOfMonth) /\ notNull(t.recurrenceDayOfWeekMonthly)
         /\ t.recurrenceDayOfWeekMonthly.val >= 1
         /\ t.recurrenceDayOfWeekMonthly.val <= 7
      THEN getOrdinal(t.recurrenceWeekOfMonth.val) \o " "
             \o getDayName(isoToDayIndex(t.recurrenceDayOfWeekMonthly.val))
      ELSE "monthly"

\* The "annually" case with month and day padded to two digits.
annuallyPrefixPadded(t) ==
    IF notNull(t.recurrenceMonth) /\ notNull(t.recurrenceDayOfMonth)
         /\ t.recurrenceMonth.val >= 1 /\ t.recurrenceMonth.val <= 12
      THEN padStart2(t.recurrenceMonth.val) \o "/"
             \o padStart2(t.recurrenceDayOfMonth.val)
      ELSE "annually"

\* The "annually" case of getRecurrencePrefix's switch.
annuallyPrefix(t) ==
    IF notNull(t.recurrenceMonth) /\ notNull(t.recurrenceDayOfMonth)
         /\ t.recurrenceMonth.val >= 1 /\ t.recurrenceMonth.val <= 12
      THEN ToString(t.recurrenceMonth.val) \o "/"
             \o ToString(t.recurrenceDayOfMonth.val)
      ELSE "annually"

\* getRecurrencePrefix(todo)
getRecurrencePrefix(t) ==
    CASE t.recurrenceType = "daily" -> "every day"
      [] t.recurrenceType = "every x days" ->
            IF notNull(t.recurrenceInterval) /\ t.recurrenceInterval.val > 0
              THEN "every " \o ToString(t.recurrenceInterval.val) \o " days"
              ELSE "every x days"
      [] t.recurrenceType = "weekly" ->
            IF notNull(t.recurrenceDayOfWeek) /\ t.recurrenceDayOfWeek.val >= 1
                 /\ t.recurrenceDayOfWeek.val <= 7
              THEN "every " \o getDayName(isoToDayIndex(t.recurrenceDayOfWeek.val))
              ELSE "weekly"
      [] t.recurrenceType = "biweekly" ->
            IF notNull(t.recurrenceDayOfWeek) /\ t.recurrenceDayOfWeek.val >= 1
                 /\ t.recurrenceDayOfWeek.val <= 7
              THEN "every other " \o getDayName(isoToDayIndex(t.recurrenceDayOfWeek.val))
              ELSE "biweekly"
      [] t.recurrenceType = "monthly date" ->
            IF notNull(t.recurrenceDayOfMonth) /\ t.recurrenceDayOfMonth.val >= 1
                 /\ t.recurrenceDayOfMonth.val <= 31
              THEN "on the " \o getOrdinal(t.recurrenceDayOfMonth.val)
              ELSE "monthly"
      [] t.recurrenceType = "monthly day" -> monthlyDayPrefix(t)
      [] t.recurrenceType = "annually" -> annuallyPrefix(t)
      [] t.recurrenceType \in {"full moon", "new moon", "every season",
                               "winter solstice", "spring equinox",
                               "summer solstice", "autumn equinox"} ->
            noPrefix(t.recurrenceType)
      [] OTHER -> noPrefix(t.recurrenceType)

-----------------------------------------------------------------------------
(* Recurrence advancer used by the skip and complete routes.  A calendar    *)
(* date is a count of days since 1970-01-01.                                *)

IsLeapYear(y) == (y % 4 = 0 /\ y % 100 # 0) \/ y % 400 = 0

DaysInMonth(y, m) ==
    CASE m = 2 -> IF IsLeapYear(y) THEN 29 ELSE 28
      [] m \in {4, 6, 9, 11} -> 30
      [] OTHER -> 31

\* Day count of the proleptic Gregorian date y-m-d.
DaysFromCivil(y, m, d) ==
    LET yy  == IF m <= 2 THEN y - 1 ELSE y
        era == yy \div 400
        yoe == yy - era * 400
        mp  == IF m > 2 THEN m - 3 ELSE m + 9
        doy == ((153 * mp + 2) \div 5) + d - 1
        doe == yoe * 365 + (yoe \div 4) - (yoe \div 100) + doy
    IN  era * 146097 + doe - 719468

\* ISO-8601 weekday (1 = Monday .. 7 = Sunday); 1970-01-01 was a Thursday.
isoWeekday(n) == ((n + 3) % 7) + 1

\* The weekOfMonth-th weekday dayOfWeek of month m of year y.
nthWeekdayOfMonth(y, m, weekOfMonth, dayOfWeek) ==
    LET first == DaysFromCivil(y, m, 1)
        shift == (dayOfWeek - isoWeekday(first) + 7) % 7
    IN  first + shift + 7 * (weekOfMonth - 1)

\* The advancer with the next date taken from the request's "today" instead
\* of the occurrence's display date.
nextOccurrenceFromToday(rule, currentDate, referenceToday) ==
    LET ty == rule.recurrenceType
        c  == CivilFromDays(referenceToday)
        y2 == IF c.month = 12 THEN c.year + 1 ELSE c.year
        m2 == IF c.month = 12 THEN 1 ELSE c.month + 1
    IN  CASE ty = "daily" -> referenceToday + 1
          [] ty = "every x days" -> referenceToday + rule.recurrenceInterval.val
          [] ty = "weekly" -> referenceToday + 7
          [] ty = "biweekly" -> referenceToday + 14
          [] ty = "monthly date" ->
                LET dim == DaysInMonth(y2, m2)
                    d   == IF rule.recurrenceDayOfMonth.val > dim THEN dim
                           ELSE rule.recurrenceDayOfMonth.val
                IN  DaysFromCivil(y2, m2, d)
          [] ty = "monthly day" ->
                nthWeekdayOfMonth(y2, m2, rule.recurrenceWeekOfMonth.val,
                                  rule.recurrenceDayOfWeekMonthly.val)
          [] ty = "annually" ->
                DaysFromCivil(c.year + 1, rule.recurrenceMonth.val,
                              rule.recurrenceDayOfMonth.val)

\* nextOccurrence(rule, currentDate, referenceToday): the calendar types
\* advance from currentDate alone.
nextOccurrence(rule, currentDate, referenceToday) ==
    LET ty == rule.recurrenceType
        c  == CivilFromDays(currentDate)
        y2 == IF c.month = 12 THEN c.year + 1 ELSE c.year
        m2 == IF c.month = 12 THEN 1 ELSE c.month + 1
    IN  CASE ty = "daily" -> currentDate + 1
          [] ty = "every x days" -> currentDate + rule.recurrenceInterval.val
          [] ty = "weekly" -> currentDate + 7
          [] ty = "biweekly" -> currentDate + 14
          [] ty = "monthly date" ->
                LET dim == DaysInMonth(y2, m2)
                    d   == IF rule.recurrenceDayOfMonth.val > dim THEN dim
                           ELSE rule.recurrenceDayOfMonth.val
                IN  DaysFromCivil(y2, m2, d)
          [] ty = "monthly day" ->
                nthWeekdayOfMonth(y2, m2, rule.recurrenceWeekOfMonth.val,
                                  rule.recurrenceDayOfWeekMonthly.val)
          [] ty = "annually" ->
                DaysFromCivil(c.year + 1, rule.recurrenceMonth.val,
                              rule.recurrenceDayOfMonth.val)

\* A todo as the routes see it.
Occurrence(rule, displayDate, status) ==
    [rule |-> rule, displayDate |-> displayDate, status |-> status]

-----------------------------------------------------------------------------
(* Inputs of the model.                                                     *)

\* A clock step is at most MaxTick minutes long.
MaxTick == 60

\* Numeric values of a recurrence field run from -1 to MaxFieldValue.
MaxFieldValue == 32

FieldValues == {Null, Undefined} \cup { Num(n) : n \in (-1) .. MaxFieldValue }

\* Values held by the fields a recurrence type does not use.
OtherValues == {Null, Num(3)}

RecurrenceTypes ==
    {"none", "daily", "every x days", "weekly", "biweekly", "monthly date",
     "monthly day", "annually", "full moon", "new moon", "every season",
     "winter solstice", "spring equinox", "summer solstice", "autumn equinox",
     "fortnightly"}

Blank(ty, o) ==
    [recurrenceType |-> ty, recurrenceInterval |-> o, recurrenceDayOfWeek |-> o,
     recurrenceDayOfMonth |-> o, recurrenceWeekOfMonth |-> o,
     recurrenceDayOfWeekMonthly |-> o, recurrenceMonth |-> o]

TodoInputs ==
    { Blank(ty, o) : ty \in RecurrenceTypes, o \in OtherValues }
    \cup { [Blank("every x days", o) EXCEPT !.recurrenceInterval = v] :
             v \in FieldValues, o \in OtherValues }
    \cup { [Blank(ty, o) EXCEPT !.recurrenceDayOfWeek = v] :
             ty \in {"weekly", "biweekly"}, v \in FieldValues, o \in OtherValues }
    \cup { [Blank("monthly date", o) EXCEPT !.recurrenceDayOfMonth = v] :
             v \in FieldValues, o \in OtherValues }
    \cup { [Blank("monthly day", o) EXCEPT !.recurrenceWeekOfMonth = v,
                                          !.recurrenceDayOfWeekMonthly = w] :
             v \in FieldValues, w \in FieldValues, o \in OtherValues }
    \cup { [Blank("annually", o) EXCEPT !.recurrenceMonth = v,
                                       !.recurrenceDayOfMonth = w] :
             v \in FieldValues, w \in FieldValues, o \in OtherValues }

\* The absence of a todo (newTodo: null).
NoTodo == Occurrence(Blank("none", Null), 0, "absent")

\* The strings given to parseInEST: a year, a separator, a group, a
\* separator and a group, each of them well-formed or not.
YearGroups == {<<"2", "0", "2", "6">>, <<"2", "0", "2", "5">>, <<"2", "6">>,
               <<"2", "0", "2", "6", "0">>}

Separators == {<<"-">>, <<"/">>, <<>>}

FieldGroups == {<<"0", "1">>, <<"0", "2">>, <<"1", "2">>, <<"1", "3">>, <<"3", "0">>,
                <<"3", "1">>, <<"5">>, <<"a", "b">>, <<>>}

DateStrings ==
    { y \o s1 \o m \o s2 \o d :
        y \in YearGroups, s1 \in Separators, m \in FieldGroups,
        s2 \in Separators, d \in FieldGroups }

\* getOrdinal is applied to the numbers 1 .. MaxOrdinal.
MaxOrdinal == 123

\* A todo recurs unless its recurrence type is 'none'.
isRecurring(t) == t.rule.recurrenceType # "none"

\* Writes sent to the CMS, counted by method.
Writes(post, put, delete) == [post |-> post, put |-> put, delete |-> delete]

NoWrites == Writes(0, 0, 0)

\* Skip that deletes the todo whether or not it recurs.
skipWritesDeleteAlways(recurring) ==
    IF recurring THEN Writes(1, 0, 1) ELSE Writes(0, 0, 1)

\* Skip of a recurring todo creates the next occurrence and deletes the
\* skipped one; a todo that does not recur is rejected before any write.
skipWrites(recurring) ==
    IF recurring THEN Writes(1, 0, 1) ELSE NoWrites

\* Complete that also deletes the completed occurrence, as skip does.
completeWritesWithDelete(recurring) ==
    IF recurring THEN Writes(1, 1, 1) ELSE Writes(0, 1, 0)

\* Complete marks the todo completed and, if it recurs, creates the next
\* occurrence; it deletes nothing.
completeWrites(recurring) ==
    IF recurring THEN Writes(1, 1, 0) ELSE Writes(0, 1, 0)

\* Intervals of an "every x days" rule run from 1 to MaxInterval.
MaxInterval == 3

\* Display dates run from FirstDay over DisplaySpan + HorizonDays days: the
\* turn of the year, all of January 2026 and the first days of February.
DisplaySpan == 31

DisplayDates == FirstDay .. (FirstDay + DisplaySpan + HorizonDays)

\* The dates a request may take for "today".
Todays == FirstDay .. (FirstDay + HorizonDays)

\* Recurring rules with every required field present and in range, and the
\* rule of a todo that does not recur.
RuleInputs ==
    { Blank("none", Null), Blank("daily", Null) }
    \cup { [Blank("every x days", Null) EXCEPT !.recurrenceInterval = Num(v)] :
             v \in 1 .. MaxInterval }
    \cup { [Blank(ty, Null) EXCEPT !.recurrenceDayOfWeek = Num(v)] :
             ty \in {"weekly", "biweekly"}, v \in {1, 7} }
    \cup { [Blank("monthly date", Null) EXCEPT !.recurrenceDayOfMonth = Num(v)] :
             v \in {1, 15, 29, 30, 31} }
    \cup { [Blank("monthly day", Null) EXCEPT !.recurrenceWeekOfMonth = Num(v),
                                             !.recurrenceDayOfWeekMonthly = Num(w)] :
             v \in 1 .. 4, w \in {1, 3, 7} }
    \cup { [Blank("annually", Null) EXCEPT !.recurrenceMonth = Num(pr[1]),
                                          !.recurrenceDayOfMonth = Num(pr[2])] :
             pr \in {<<1, 5>>, <<2, 28>>, <<7, 4>>, <<12, 31>>} }

\* The first instant of the window.
StartInstant == FirstDay * MinutesPerDay

\* The instants at which a work session is logged.
SessionTimes ==
    { FirstDay * MinutesPerDay + h * 60 + m : h \in {3, 10, 22}, m \in {0, 30} }

\* The boundary hours of the work-session specification.
PhaseBoundaryHours == {0, 4, 23}

-----------------------------------------------------------------------------
(* app/contexts/LayoutRulesetContext.tsx: the layout preference.            *)
(*                                                                         *)
(* A localStorage value is a record.  Kind "none" is what getItem returns   *)
(* for a key that is not there (null); kind "text" is a string that is not  *)
(* JSON, held in text; kind "null" is the string "null"; kind "object" is   *)
(* the JSON text of an object with a rulesetId and, when timestamp is a     *)
(* number, a timestamp.  A URL parameter is a record too: whether it is     *)
(* present, and its value.                                                  *)

STORAGE_KEY == "todo-layout-ruleset-id"

DEFAULT_RULESET_ID == "good-morning"

LAYOUT_EXPIRY_MS == 5 * 60 * 1000

LAYOUT_PRESETS == {"good-morning", "roulette", "stuff", "done"}

NoItem == [kind |-> "none", text |-> "", rulesetId |-> "", timestamp |-> Undefined]

TextItem(s) == [kind |-> "text", text |-> s, rulesetId |-> "", timestamp |-> Undefined]

NullItem == [kind |-> "null", text |-> "null", rulesetId |-> "", timestamp |-> Undefined]

ObjectItem(id, ts) == [kind |-> "object", text |-> "", rulesetId |-> id, timestamp |-> ts]

getItem(storage, key) == storage[key]

setItem(storage, key, value) == [storage EXCEPT ![key] = value]

removeItem(storage, key) == [storage EXCEPT ![key] = NoItem]

\* JSON.stringify({ rulesetId, timestamp }).
JSON_stringify(rulesetId, timestamp) == ObjectItem(rulesetId, Num(timestamp))

\* JSON.parse(stored): throws on a string that is not JSON.
JSON_parse(stored) ==
    [threw |-> stored.kind = "text",
     isNull |-> stored.kind = "null",
     rulesetId |-> stored.rulesetId,
     timestamp |-> stored.timestamp]

\* `!stored`: null and the empty string are falsy.
isFalsy(stored) == stored.kind = "none" \/ (stored.kind = "text" /\ stored.text = "")

\* `now - timestamp < LAYOUT_EXPIRY_MS`; with no timestamp the difference is
\* NaN and the comparison is false.
withinExpiry(now, timestamp) ==
    notNull(timestamp) /\ now - timestamp.val < LAYOUT_EXPIRY_MS

getInitialRulesetIdInclusive(window, storage, now) ==
    LET stored == getItem(storage, STORAGE_KEY)
        data == JSON_parse(stored)
    IN  IF ~window \/ isFalsy(stored)
        THEN [rulesetId |-> DEFAULT_RULESET_ID, localStorage |-> storage]
        ELSE IF ~data.threw /\ ~data.isNull /\ notNull(data.timestamp)
                /\ now - data.timestamp.val <= LAYOUT_EXPIRY_MS
             THEN [rulesetId |-> data.rulesetId, localStorage |-> storage]
             ELSE [rulesetId |-> DEFAULT_RULESET_ID,
                   localStorage |-> removeItem(storage, STORAGE_KEY)]

\* The rulesetId the state starts from, and localStorage as the call leaves it.
getInitialRulesetId(window, storage, now) ==
    LET stored == getItem(storage, STORAGE_KEY)
        data == JSON_parse(stored)
    IN  IF ~window
        THEN [rulesetId |-> DEFAULT_RULESET_ID, localStorage |-> storage]
        ELSE IF isFalsy(stored)
        THEN [rulesetId |-> DEFAULT_RULESET_ID, localStorage |-> storage]
        ELSE IF data.threw \/ data.isNull
             \* JSON.parse threw, or the destructuring of null did
        THEN [rulesetId |-> DEFAULT_RULESET_ID,
              localStorage |-> removeItem(storage, STORAGE_KEY)]
        ELSE IF withinExpiry(now, data.timestamp)
        THEN [rulesetId |-> data.rulesetId, localStorage |-> storage]
        ELSE [rulesetId |-> DEFAULT_RULESET_ID,
              localStorage |-> removeItem(storage, STORAGE_KEY)]

isValidPresetIdAny(id) == TRUE

isValidPresetId(id) == \E preset \in LAYOUT_PRESETS : preset = id

NoParam == [present |-> FALSE, value |-> ""]

Param(v) == [present |-> TRUE, value |-> v]

\* `viewParam && isValidPresetId(viewParam)`.
acceptsViewParam(viewParam) ==
    viewParam.present /\ viewParam.value # "" /\ isValidPresetId(viewParam.value)

persistAlways(storage, hydrated, window, rulesetId, now) ==
    setItem(storage, STORAGE_KEY, JSON_stringify(rulesetId, now))

\* The write of the persistence effect.
persist(storage, hydrated, window, rulesetId, now) ==
    IF hydrated /\ window
    THEN setItem(storage, STORAGE_KEY, JSON_stringify(rulesetId, now))
    ELSE storage

shouldReplaceAnyPage(path, currentView, rulesetId) == currentView # Param(rulesetId)

\* `pathname === '/todo'` and `currentView !== selectedRulesetId`.
shouldReplace(path, currentView, rulesetId) ==
    path = "/todo" /\ currentView # Param(rulesetId)

\* One minute, in milliseconds.
MinuteMs == 60 * 1000

\* A stored timestamp is one of the minutes 0 .. MaxStoredMinute; the
\* provider mounts at minute StartMinute and the clock runs to MaxMinute.
MaxStoredMinute == 2

StartMinute == 6

MaxMinute == 7

\* The user acts at most MaxUserSteps times.
MaxUserSteps == 3

Pathnames == {"/todo", "/practice"}

ViewParams == {NoParam, Param(""), Param("stuff"), Param("invalid-preset")}

StoredItems ==
    {NoItem, TextItem(""), TextItem("invalid-json"), NullItem}
    \cup { ObjectItem(id, Undefined) : id \in {"roulette"} }
    \cup { ObjectItem(id, Num(m * MinuteMs)) :
             id \in {"roulette", "invalid-preset"}, m \in 0 .. MaxStoredMinute }

NoReplace == [pending |-> FALSE, view |-> ""]

\* What a render hands to its effects.
Rendering(selected, hydrated, path, view) ==
    [selectedRulesetId |-> selected, isHydrated |-> hydrated, pathname |-> path,
     searchParams |-> view]

-----------------------------------------------------------------------------
(* app/(main)/todo/components/layouts/RecurringReviewLayout.tsx.            *)
(*                                                                         *)
(* Each of the two maps of transformedData is a record: whether the map is *)
(* there at all, and for every key whether the key is in the map and what  *)
(* it holds.  A list of sections is held as the number of todos of each    *)
(* section, a list of incidental todos as its length.                      *)

getRecurrenceTypeLabel(recurrenceType) ==
    CASE recurrenceType = "daily" -> "every day"
      [] recurrenceType = "every x days" -> "every x days"
      [] recurrenceType = "weekly" -> "weekly"
      [] recurrenceType = "biweekly" -> "biweekly"
      [] recurrenceType = "monthly" -> "monthly"
      [] recurrenceType = "monthly date" -> "monthly (by date)"
      [] recurrenceType = "monthly day" -> "monthly (by day)"
      [] recurrenceType = "annually" -> "annually"
      [] recurrenceType = "full moon" -> "full moon"
      [] recurrenceType = "new moon" -> "new moon"
      [] recurrenceType = "every season" -> "every season"
      [] recurrenceType = "winter solstice" -> "winter solstice"
      [] recurrenceType = "spring equinox" -> "spring equinox"
      [] recurrenceType = "summer solstice" -> "summer solstice"
      [] recurrenceType = "autumn equinox" -> "autumn equinox"
      [] OTHER -> recurrenceType

recurrenceTypeOrder ==
    <<"daily", "every x days", "weekly", "biweekly", "monthly", "annually",
      "full moon", "new moon", "every season", "winter solstice", "spring equinox",
      "summer solstice", "autumn equinox">>

\* The keys a map of transformedData may hold.
ReviewKeys == { recurrenceTypeOrder[i] : i \in DOMAIN recurrenceTypeOrder }

NoSections == [present |-> FALSE, sections |-> <<>>]

Sections(list) == [present |-> TRUE, sections |-> list]

NoIncidentals == [present |-> FALSE, length |-> 0]

Incidentals(n) == [present |-> TRUE, length |-> n]

\* map.size
mapSize(map) == Cardinality({ key \in ReviewKeys : map.entries[key].present })

\* map?.get(key): undefined when the map or the key is missing.
sectionsOf(map, key) ==
    IF map.defined THEN map.entries[key] ELSE NoSections

incidentalsOf(map, key) ==
    IF map.defined THEN map.entries[key] ELSE NoIncidentals

RECURSIVE sumOf(_)
sumOf(list) == IF list = <<>> THEN 0 ELSE Head(list) + sumOf(Tail(list))

\* `!sections && (!incidentals || incidentals.length === 0)` returns null.
rendersType(sections, incidentals) ==
    ~(~sections.present /\ (~incidentals.present \/ incidentals.length = 0))

\* The <div className="todo-section"> of one recurrence type: its h3, the h4
\* of every section and of the incidentals, and the number of todo items.
TodoSection(recurrenceType, sections, incidentals) ==
    [type |-> recurrenceType,
     h3 |-> getRecurrenceTypeLabel(recurrenceType),
     h4 |-> Len(sections.sections)
            + (IF incidentals.present /\ incidentals.length > 0 THEN 1 ELSE 0),
     items |-> sumOf(sections.sections)
               + (IF incidentals.present /\ incidentals.length > 0
                  THEN incidentals.length ELSE 0)]

RECURSIVE todoSectionsFrom(_, _)
todoSectionsFrom(data, i) ==
    IF i > Len(recurrenceTypeOrder)
    THEN <<>>
    ELSE LET recurrenceType == recurrenceTypeOrder[i]
             sections == sectionsOf(data.recurringReviewSections, recurrenceType)
             incidentals == incidentalsOf(data.recurringReviewIncidentals,
                                          recurrenceType)
         IN  (IF rendersType(sections, incidentals)
              THEN <<TodoSection(recurrenceType, sections, incidentals)>>
              ELSE <<>>)
             \o todoSectionsFrom(data, i + 1)

RecurringReviewLayout(data) ==
    LET hasSections == /\ data.recurringReviewSections.defined
                       /\ mapSize(data.recurringReviewSections) > 0
        hasIncidentals == /\ data.recurringReviewIncidentals.defined
                          /\ mapSize(data.recurringReviewIncidentals) > 0
    IN  IF ~hasSections /\ ~hasIncidentals
        THEN [rendered |-> TRUE, p |-> "no recurring tasks", container |-> FALSE,
              todoSections |-> <<>>]
        ELSE [rendered |-> TRUE, p |-> "", container |-> TRUE,
              todoSections |-> todoSectionsFrom(data, 1)]

NotRendered == [rendered |-> FALSE, p |-> "", container |-> FALSE, todoSections |-> <<>>]

\* The lists a key may hold: no section, a project without todos, one
\* section of one todo, two sections.
SectionLists == {<<>>, <<0>>, <<1>>, <<2, 1>>}

IncidentalLengths == {0, 2}

UndefinedMap(none) == [defined |-> FALSE, entries |-> [key \in ReviewKeys |-> none]]

\* Maps with entries under at most the two keys k1 and k2.
SectionMaps(k1, k2) ==
    { [defined |-> TRUE,
       entries |-> [key \in ReviewKeys |->
                      IF key = k1 THEN v1 ELSE IF key = k2 THEN v2 ELSE NoSections]] :
        v1 \in {NoSections} \cup { Sections(list) : list \in SectionLists },
        v2 \in {NoSections} \cup { Sections(list) : list \in {<<>>, <<1>>} } }
    \cup {UndefinedMap(NoSections)}

IncidentalMaps(k1, k2) ==
    { [defined |-> TRUE,
       entries |-> [key \in ReviewKeys |->
                      IF key = k1 THEN v1 ELSE IF key = k2 THEN v2
                      ELSE NoIncidentals]] :
        v1 \in {NoIncidentals} \cup { Incidentals(n) : n \in IncidentalLengths },
        v2 \in {NoIncidentals} \cup { Incidentals(n) : n \in IncidentalLengths } }
    \cup {UndefinedMap(NoIncidentals)}

-----------------------------------------------------------------------------
(* The proxy (middleware) in front of every page.                           *)
(*                                                                         *)
(* A pathname is held as its segments: "/api/todos" is <<"api", "todos">>,  *)
(* "/api" is <<"api">>, "/api/" is <<"api", "">> and "/" is <<"">>.         *)

NoCookie == [present |-> FALSE, value |-> ""]

Cookie(v) == [present |-> TRUE, value |-> v]

\* pathname === '/login'
isLogin(path) == path = <<"login">>

\* pathname.startsWith('/api/')
startsWithApi(path) == Len(path) >= 2 /\ path[1] = "api"

NoSetCookie == [set |-> FALSE, name |-> "", value |-> "", maxAge |-> 0]

\* res.cookies.set('auth_token', '', { ..., maxAge: 0, path: '/' })
ClearAuthToken == [set |-> TRUE, name |-> "auth_token", value |-> "", maxAge |-> 0]

\* NextResponse.next()
NextResponseNext(fetched) ==
    [kind |-> "next", location |-> <<>>, setCookie |-> NoSetCookie, fetched |-> fetched]

\* NextResponse.redirect(new URL('/login', request.url))
NextResponseRedirect(setCookie, fetched) ==
    [kind |-> "redirect", location |-> <<"login">>, setCookie |-> setCookie,
     fetched |-> fetched]

proxyTrustingCookie(path, token, cms) ==
    IF isLogin(path) \/ startsWithApi(path)
    THEN NextResponseNext(FALSE)
    ELSE IF ~token.present
    THEN NextResponseRedirect(NoSetCookie, FALSE)
    ELSE NextResponseNext(FALSE)

\* proxy(request): cms is what the fetch of /api/users/me does when it is
\* made: "ok", "not ok" or "throws".
proxy(path, token, cms) ==
    IF isLogin(path)
    THEN NextResponseNext(FALSE)
    ELSE IF startsWithApi(path)
    THEN NextResponseNext(FALSE)
    ELSE IF ~token.present
    THEN NextResponseRedirect(NoSetCookie, FALSE)
    ELSE IF cms = "throws"
    THEN NextResponseRedirect(ClearAuthToken, TRUE)
    ELSE IF cms = "not ok"
    THEN NextResponseRedirect(ClearAuthToken, TRUE)
    ELSE NextResponseNext(TRUE)

\* config.matcher: every path but the static assets.
matcher(path) ==
    /\ ~(Len(path) >= 2 /\ path[1] = "_next" /\ path[2] \in {"static", "image"})
    /\ ~(path[1] \in {"favicon.svg", "favicon.ico"})

Paths ==
    { <<"login">>, <<"login", "">>, <<"Login">>, <<"login", "reset">>,
      <<"api", "todos">>, <<"api", "">>, <<"api">>, <<"apix", "todos">>,
      <<"">>, <<"todo">>, <<"settings">>, <<"todo", "api", "x">>,
      <<"_next", "static", "app.js">>, <<"favicon.ico">> }

CmsOutcomes == {"ok", "not ok", "throws"}

CookieValues == {"", "token-a", "token-b"}

NoRequest == [pathname |-> <<>>, token |-> NoCookie, cms |-> "ok"]

NoResponse == [kind |-> "none", location |-> <<>>, setCookie |-> NoSetCookie,
               fetched |-> FALSE]

-----------------------------------------------------------------------------
(* The state machine.                                                       *)

\* The application evaluates the time functions when it starts.
InitObserved ==
    /\ tzRead = timezone
    /\ boundaryRead = dayBoundaryHour
    /\ effectiveDay = getEffectiveDayForTimestamp(clock, dayBoundaryHour, timezone, sysTimezone)
    /\ sessionDay = getEffectiveDayForTimestamp(workSession, dayBoundaryHour, timezone, sysTimezone)
    /\ phase = getWorkedOnPhase(workSession, clock, visibilityMinutes, dayBoundaryHour,
                                timezone, sysTimezone)
    /\ completionDate = getCompletionDateForRecurrence(clock, dayBoundaryHour, timezone,
                                                       sysTimezone)
    /\ todayForRecurrence = getTodayForRecurrence(clock, dayBoundaryHour, timezone,
                                                  sysTimezone)

InitLabelDefault ==
    /\ todo = Blank("none", Null)
    /\ prefix = getRecurrencePrefix(Blank("none", Null))

\* No pure function has been called yet.
InitPureDefault ==
    /\ num = 0
    /\ ordinal = ""
    /\ dateString = <<>>
    /\ parsed = [threw |-> FALSE, date |-> InvalidDate]
    /\ reformatted = ""

InitRoutesDefault ==
    /\ skipTodo = NoTodo
    /\ completeTodo = NoTodo
    /\ skipNewTodo = NoTodo
    /\ completeNewTodo = NoTodo
    /\ skipResponse = 0
    /\ completeResponse = 0
    /\ skipError = ""
    /\ completeError = ""
    /\ skipCalls = NoWrites
    /\ completeCalls = NoWrites

\* The layout provider is not on the page.
InitLayoutDefault ==
    /\ localStorage = [key \in {STORAGE_KEY} |-> NoItem]
    /\ nowMs = StartMinute * MinuteMs
    /\ hasWindow = TRUE
    /\ initialStored = NoItem
    /\ mounted = FALSE
    /\ selectedRulesetId = DEFAULT_RULESET_ID
    /\ isHydrated = FALSE
    /\ closure = Rendering(DEFAULT_RULESET_ID, FALSE, "/todo", NoParam)
    /\ pathname = "/todo"
    /\ locationView = NoParam
    /\ layoutEffectDue = FALSE
    /\ effectDue = FALSE
    /\ replacePending = NoReplace
    /\ replaceCount = 0
    /\ userSteps = 0

\* RecurringReviewLayout has nothing to show and has not rendered.
InitReviewDefault ==
    /\ transformedData = [recurringReviewSections |-> UndefinedMap(NoSections),
                          recurringReviewIncidentals |-> UndefinedMap(NoIncidentals)]
    /\ reviewOutput = NotRendered

\* No request has reached the proxy.
InitProxyDefault ==
    /\ cookies = NoCookie
    /\ request = NoRequest
    /\ response = NoResponse

InitUiDefault ==
    /\ InitLayoutDefault
    /\ InitReviewDefault
    /\ InitProxyDefault

InitTimeDefault ==
    /\ timezone = "America/New_York"
    /\ sysTimezone = "UTC"
    /\ dayBoundaryHour = 0
    /\ visibilityMinutes = 15
    /\ clock = StartInstant
    /\ workSession = StartInstant
    /\ InitObserved

\* Day functions: every timezone, runtime timezone and boundary hour.
Init ==
    /\ timezone \in Timezones
    /\ sysTimezone \in Timezones
    /\ dayBoundaryHour \in BoundaryHours
    /\ visibilityMinutes = 15
    /\ clock = StartInstant
    /\ workSession = StartInstant
    /\ InitObserved
    /\ InitLabelDefault
    /\ InitRoutesDefault
    /\ InitPureDefault
    /\ InitUiDefault

\* Work-session phases: a session logged at one of SessionTimes.
InitPhase ==
    /\ timezone \in Timezones
    /\ sysTimezone \in Timezones
    /\ dayBoundaryHour \in PhaseBoundaryHours
    /\ visibilityMinutes \in VisibilityOptions
    /\ workSession \in SessionTimes
    /\ clock = workSession
    /\ InitObserved
    /\ InitLabelDefault
    /\ InitRoutesDefault
    /\ InitPureDefault
    /\ InitUiDefault

InitLabels ==
    /\ InitTimeDefault
    /\ InitLabelDefault
    /\ InitRoutesDefault
    /\ InitPureDefault
    /\ InitUiDefault

\* Two stored occurrences that are copies of one todo, one to be skipped and
\* one to be completed.
InitRoutes ==
    /\ InitTimeDefault
    /\ InitLabelDefault
    /\ \E rule \in RuleInputs, displayDate \in DisplayDates :
          /\ skipTodo = Occurrence(rule, displayDate, "open")
          /\ completeTodo = Occurrence(rule, displayDate, "open")
    /\ skipNewTodo = NoTodo
    /\ completeNewTodo = NoTodo
    /\ skipResponse = 0
    /\ completeResponse = 0
    /\ skipError = ""
    /\ completeError = ""
    /\ skipCalls = NoWrites
    /\ completeCalls = NoWrites
    /\ InitPureDefault
    /\ InitUiDefault

\* Time passes and the application evaluates the time functions again.
Tick ==
    \E t \in Instants :
        /\ t > clock
        /\ t - clock <= MaxTick
        /\ clock' = t
        /\ tzRead' = readTimezone(timezone, tzRead)
        /\ boundaryRead' = readDayBoundaryHour(dayBoundaryHour, boundaryRead)
        /\ effectiveDay' = getEffectiveDayForTimestamp(t, boundaryRead', tzRead',
                                                       sysTimezone)
        /\ phase' = getWorkedOnPhase(workSession, t, visibilityMinutes, boundaryRead',
                                     tzRead', sysTimezone)
        /\ completionDate' = getCompletionDateForRecurrence(t, boundaryRead', tzRead',
                                                            sysTimezone)
        /\ todayForRecurrence' = getTodayForRecurrence(t, boundaryRead', tzRead',
                                                       sysTimezone)
        /\ UNCHANGED <<timezone, sysTimezone, dayBoundaryHour, visibilityMinutes,
                       workSession, sessionDay, todo, prefix>>
        /\ UNCHANGED routeVars
        /\ UNCHANGED pureVars
        /\ UNCHANGED uiVars

\* The review list renders a todo: its recurrence prefix is computed.
Describe ==
    \E t \in TodoInputs :
        /\ todo = Blank("none", Null)
        /\ todo' = t
        /\ prefix' = getRecurrencePrefix(t)
        /\ UNCHANGED timeVars
        /\ UNCHANGED routeVars
        /\ UNCHANGED pureVars
        /\ UNCHANGED uiVars

\* POST .../skip: 401 without a session, 400 for a todo that does not recur;
\* otherwise the next occurrence is created and the skipped one deleted.
skipRoute ==
    \E authorized \in BOOLEAN, today \in Todays :
        /\ skipResponse = 0
        /\ LET recurring == isRecurring(skipTodo)
               writes    == IF authorized THEN skipWrites(recurring) ELSE NoWrites
           IN  /\ skipCalls' = writes
               /\ skipResponse' = IF ~authorized THEN 401
                                  ELSE IF ~recurring THEN 400 ELSE 200
               /\ skipError' = IF ~authorized THEN "Unauthorized"
                               ELSE IF ~recurring THEN "Todo is not recurring" ELSE ""
               /\ skipNewTodo' =
                    IF writes.post > 0
                    THEN Occurrence(skipTodo.rule,
                                    nextOccurrence(skipTodo.rule, skipTodo.displayDate,
                                                   today),
                                    "open")
                    ELSE NoTodo
               /\ skipTodo' = IF writes.delete > 0
                              THEN [skipTodo EXCEPT !.status = "deleted"]
                              ELSE skipTodo
        /\ UNCHANGED <<completeTodo, completeNewTodo, completeResponse, completeError,
                       completeCalls>>
        /\ UNCHANGED timeVars
        /\ UNCHANGED labelVars
        /\ UNCHANGED pureVars
        /\ UNCHANGED uiVars

\* POST .../complete: 401 without a session; otherwise the todo is marked
\* completed and, if it recurs, the next occurrence is created.
completeRoute ==
    \E authorized \in BOOLEAN, today \in Todays :
        /\ completeResponse = 0
        /\ LET recurring == isRecurring(completeTodo)
               writes    == IF authorized THEN completeWrites(recurring) ELSE NoWrites
           IN  /\ completeCalls' = writes
               /\ completeResponse' = IF ~authorized THEN 401 ELSE 200
               /\ completeError' = IF ~authorized THEN "Unauthorized" ELSE ""
               /\ completeNewTodo' =
                    IF writes.post > 0
                    THEN Occurrence(completeTodo.rule,
                                    nextOccurrence(completeTodo.rule,
                                                   completeTodo.displayDate, today),
                                    "open")
                    ELSE NoTodo
               /\ completeTodo' =
                    IF writes.delete > 0
                    THEN [completeTodo EXCEPT !.status = "deleted"]
                    ELSE IF writes.put > 0
                    THEN [completeTodo EXCEPT !.status = "completed"]
                    ELSE completeTodo
        /\ UNCHANGED <<skipTodo, skipNewTodo, skipResponse, skipError, skipCalls>>
        /\ UNCHANGED timeVars
        /\ UNCHANGED labelVars
        /\ UNCHANGED pureVars
        /\ UNCHANGED uiVars

\* The configured timezone is changed; no time function is called.
setTimezone ==
    \E tz \in Timezones :
        /\ tz # timezone
        /\ timezone' = tz
        /\ UNCHANGED <<sysTimezone, dayBoundaryHour, visibilityMinutes, clock, tzRead,
                       boundaryRead, workSession, effectiveDay, sessionDay, phase,
                       completionDate, todayForRecurrence>>
        /\ UNCHANGED labelVars
        /\ UNCHANGED routeVars
        /\ UNCHANGED pureVars
        /\ UNCHANGED uiVars

\* handleDayBoundaryChange: the settings page stores a new boundary hour; no
\* time function is called.
handleDayBoundaryChange ==
    \E newValue \in PhaseBoundaryHours :
        /\ newValue # dayBoundaryHour
        /\ dayBoundaryHour' = newValue
        /\ UNCHANGED <<timezone, sysTimezone, visibilityMinutes, clock, tzRead,
                       boundaryRead, workSession, effectiveDay, sessionDay, phase,
                       completionDate, todayForRecurrence>>
        /\ UNCHANGED labelVars
        /\ UNCHANGED routeVars
        /\ UNCHANGED pureVars
        /\ UNCHANGED uiVars

\* A caller formats a positive number as an ordinal.
Ordinal ==
    \E n \in 1 .. MaxOrdinal :
        /\ num' = n
        /\ ordinal' = getOrdinal(n)
        /\ UNCHANGED <<dateString, parsed, reformatted>>
        /\ UNCHANGED uiVars
        /\ UNCHANGED timeVars
        /\ UNCHANGED labelVars
        /\ UNCHANGED routeVars

\* A caller parses a date string and formats the Date it gets back; the
\* year, month and day of an Invalid Date are NaN.
Parse ==
    \E str \in DateStrings :
        /\ dateString = <<>>
        /\ dateString' = str
        /\ parsed' = parseInEST(str, timezone)
        /\ reformatted' = IF parsed'.date.valid
                          THEN toISODateInEST(parsed'.date.time, timezone, sysTimezone)
                          ELSE "NaN-NaN-NaN"
        /\ UNCHANGED <<num, ordinal>>
        /\ UNCHANGED uiVars
        /\ UNCHANGED timeVars
        /\ UNCHANGED labelVars
        /\ UNCHANGED routeVars

Next == Tick

NextLabels == Describe

Spec == Init /\ [][Next]_vars

SpecPhase == InitPhase /\ [][Next]_vars

SpecLabels == InitLabels /\ [][NextLabels]_vars

InitOrdinal ==
    /\ InitTimeDefault
    /\ InitLabelDefault
    /\ InitRoutesDefault
    /\ InitPureDefault
    /\ InitUiDefault

NextOrdinal == Ordinal

SpecOrdinal == InitOrdinal /\ [][NextOrdinal]_vars

InitParse ==
    /\ timezone \in Timezones
    /\ sysTimezone \in Timezones
    /\ dayBoundaryHour = 0
    /\ visibilityMinutes = 15
    /\ clock = StartInstant
    /\ workSession = StartInstant
    /\ InitObserved
    /\ InitLabelDefault
    /\ InitRoutesDefault
    /\ InitPureDefault
    /\ InitUiDefault

NextParse == Parse

SpecParse == InitParse /\ [][NextParse]_vars

\* The configuration changes while the application runs, starting from the
\* default settings.
InitConfig ==
    /\ InitTimeDefault
    /\ InitLabelDefault
    /\ InitRoutesDefault
    /\ InitPureDefault
    /\ InitUiDefault

NextConfig == Tick \/ setTimezone \/ handleDayBoundaryChange

SpecConfig == InitConfig /\ [][NextConfig]_vars

NextRoutes == skipRoute \/ completeRoute

SpecRoutes == InitRoutes /\ [][NextRoutes]_vars

\* The layout provider is about to mount on a page, with whatever an earlier
\* visit (or anything else) left in localStorage.
InitLayout ==
    /\ InitTimeDefault
    /\ InitLabelDefault
    /\ InitRoutesDefault
    /\ InitPureDefault
    /\ localStorage \in [{STORAGE_KEY} -> StoredItems]
    /\ nowMs = StartMinute * MinuteMs
    /\ hasWindow \in BOOLEAN
    /\ initialStored = NoItem
    /\ mounted = FALSE
    /\ selectedRulesetId = DEFAULT_RULESET_ID
    /\ isHydrated = FALSE
    /\ pathname \in Pathnames
    /\ locationView \in ViewParams
    /\ closure = Rendering(DEFAULT_RULESET_ID, FALSE, pathname, locationView)
    /\ layoutEffectDue = FALSE
    /\ effectDue = FALSE
    /\ replacePending = NoReplace
    /\ replaceCount = 0
    /\ userSteps = 0
    /\ InitReviewDefault
    /\ InitProxyDefault

\* Nothing of the provider is left to run: the last render is current and its
\* effects have run.
Quiet ==
    /\ mounted
    /\ ~layoutEffectDue
    /\ ~effectDue
    /\ closure = Rendering(selectedRulesetId, isHydrated, pathname, locationView)

\* The first render: useState(getInitialRulesetId), useState(false).  Effects
\* run in a browser only.
mount ==
    /\ ~mounted
    /\ LET initial == getInitialRulesetId(hasWindow, localStorage, nowMs)
       IN  /\ selectedRulesetId' = initial.rulesetId
           /\ localStorage' = initial.localStorage
           /\ closure' = Rendering(initial.rulesetId, FALSE, pathname, locationView)
    /\ initialStored' = getItem(localStorage, STORAGE_KEY)
    /\ mounted' = TRUE
    /\ isHydrated' = FALSE
    /\ layoutEffectDue' = hasWindow
    /\ effectDue' = hasWindow
    /\ UNCHANGED <<nowMs, hasWindow, pathname, locationView, replacePending,
                   replaceCount, userSteps>>
    /\ UNCHANGED <<timeVars, labelVars, routeVars, pureVars, reviewVars, proxyVars>>

\* The useLayoutEffect callback, on [searchParams].
useLayoutEffect ==
    /\ layoutEffectDue
    /\ LET viewParam == closure.searchParams
       IN  /\ isHydrated' = TRUE
           /\ IF acceptsViewParam(viewParam)
              THEN /\ selectedRulesetId' = viewParam.value
                   /\ localStorage' = setItem(localStorage, STORAGE_KEY,
                                              JSON_stringify(viewParam.value, nowMs))
                   /\ replaceCount' = IF viewParam.value = selectedRulesetId
                                      THEN replaceCount ELSE 0
              ELSE UNCHANGED <<selectedRulesetId, localStorage, replaceCount>>
    /\ layoutEffectDue' = FALSE
    /\ UNCHANGED <<nowMs, hasWindow, initialStored, mounted, closure, pathname, locationView,
                   effectDue, replacePending, userSteps>>
    /\ UNCHANGED <<timeVars, labelVars, routeVars, pureVars, reviewVars, proxyVars>>

\* The useEffect callback, on [selectedRulesetId, isHydrated, pathname,
\* router]; it reads the state of the render it belongs to.
useEffect ==
    /\ effectDue
    /\ ~layoutEffectDue
    /\ localStorage' = persist(localStorage, closure.isHydrated, hasWindow,
                               closure.selectedRulesetId, nowMs)
    /\ IF /\ closure.isHydrated
          /\ hasWindow
          /\ shouldReplace(closure.pathname, locationView, closure.selectedRulesetId)
       THEN /\ replacePending' = [pending |-> TRUE, view |-> closure.selectedRulesetId]
            /\ replaceCount' = replaceCount + 1
       ELSE UNCHANGED <<replacePending, replaceCount>>
    /\ effectDue' = FALSE
    /\ UNCHANGED <<nowMs, hasWindow, initialStored, mounted, selectedRulesetId, isHydrated, closure,
                   pathname, locationView, layoutEffectDue, userSteps>>
    /\ UNCHANGED <<timeVars, labelVars, routeVars, pureVars, reviewVars, proxyVars>>

\* The provider renders again after a state or URL change; the effects whose
\* dependencies changed become due.
render ==
    /\ mounted
    /\ hasWindow
    /\ ~layoutEffectDue
    /\ ~effectDue
    /\ closure # Rendering(selectedRulesetId, isHydrated, pathname, locationView)
    /\ closure' = Rendering(selectedRulesetId, isHydrated, pathname, locationView)
    /\ layoutEffectDue' = (closure.searchParams # locationView)
    /\ effectDue' = \/ closure.selectedRulesetId # selectedRulesetId
                    \/ closure.isHydrated # isHydrated
                    \/ closure.pathname # pathname
    /\ UNCHANGED <<localStorage, nowMs, hasWindow, initialStored, mounted, selectedRulesetId,
                   isHydrated, pathname, locationView, replacePending, replaceCount,
                   userSteps>>
    /\ UNCHANGED <<timeVars, labelVars, routeVars, pureVars, reviewVars, proxyVars>>

\* The user picks a layout: the context's setSelectedRulesetId.
setSelectedRulesetId ==
    \E id \in LAYOUT_PRESETS :
        /\ Quiet
        /\ hasWindow
        /\ userSteps < MaxUserSteps
        /\ selectedRulesetId' = id
        /\ replaceCount' = IF id = selectedRulesetId THEN replaceCount ELSE 0
        /\ userSteps' = userSteps + 1
        /\ UNCHANGED <<localStorage, nowMs, hasWindow, initialStored, mounted, isHydrated, closure,
                       pathname, locationView, layoutEffectDue, effectDue,
                       replacePending>>
        /\ UNCHANGED <<timeVars, labelVars, routeVars, pureVars, reviewVars, proxyVars>>

\* The navigation router.replace started reaches the address bar.
routerReplace ==
    /\ Quiet
    /\ replacePending.pending
    /\ locationView' = Param(replacePending.view)
    /\ replacePending' = NoReplace
    /\ UNCHANGED <<localStorage, nowMs, hasWindow, initialStored, mounted, selectedRulesetId,
                   isHydrated, closure, pathname, layoutEffectDue, effectDue,
                   replaceCount, userSteps>>
    /\ UNCHANGED <<timeVars, labelVars, routeVars, pureVars, reviewVars, proxyVars>>

\* The user follows a link to the same page with another `view` parameter.
followLink ==
    \E view \in ViewParams :
        /\ Quiet
        /\ hasWindow
        /\ userSteps < MaxUserSteps
        /\ view # locationView
        /\ locationView' = view
        /\ userSteps' = userSteps + 1
        /\ UNCHANGED <<localStorage, nowMs, hasWindow, initialStored, mounted, selectedRulesetId,
                       isHydrated, closure, pathname, layoutEffectDue, effectDue,
                       replacePending, replaceCount>>
        /\ UNCHANGED <<timeVars, labelVars, routeVars, pureVars, reviewVars, proxyVars>>

\* A minute passes.
minutePasses ==
    /\ nowMs < MaxMinute * MinuteMs
    /\ nowMs' = nowMs + MinuteMs
    /\ UNCHANGED <<localStorage, hasWindow, initialStored, mounted, selectedRulesetId, isHydrated,
                   closure, pathname, locationView, layoutEffectDue, effectDue,
                   replacePending, replaceCount, userSteps>>
    /\ UNCHANGED <<timeVars, labelVars, routeVars, pureVars, reviewVars, proxyVars>>

NextLayout ==
    \/ mount
    \/ useLayoutEffect
    \/ useEffect
    \/ render
    \/ setSelectedRulesetId
    \/ routerReplace
    \/ followLink
    \/ minutePasses

SpecLayout == InitLayout /\ [][NextLayout]_vars

\* The recurring-review layout is given the data of at most two recurrence
\* types.
InitReview ==
    /\ InitTimeDefault
    /\ InitLabelDefault
    /\ InitRoutesDefault
    /\ InitPureDefault
    /\ InitLayoutDefault
    /\ InitProxyDefault
    /\ \E i \in DOMAIN recurrenceTypeOrder, j \in DOMAIN recurrenceTypeOrder :
          /\ i < j
          /\ transformedData \in
                [recurringReviewSections :
                    SectionMaps(recurrenceTypeOrder[i], recurrenceTypeOrder[j]),
                 recurringReviewIncidentals :
                    IncidentalMaps(recurrenceTypeOrder[i], recurrenceTypeOrder[j])]
    /\ reviewOutput = NotRendered

\* RecurringReviewLayout renders.
renderRecurringReview ==
    /\ ~reviewOutput.rendered
    /\ reviewOutput' = RecurringReviewLayout(transformedData)
    /\ UNCHANGED transformedData
    /\ UNCHANGED <<timeVars, labelVars, routeVars, pureVars, layoutVars, proxyVars>>

NextReview == renderRecurringReview

SpecReview == InitReview /\ [][NextReview]_vars

\* A browser with or without an auth_token cookie.
InitProxy ==
    /\ InitTimeDefault
    /\ InitLabelDefault
    /\ InitRoutesDefault
    /\ InitPureDefault
    /\ InitLayoutDefault
    /\ InitReviewDefault
    /\ cookies \in {NoCookie} \cup { Cookie(v) : v \in CookieValues }
    /\ request = NoRequest
    /\ response = NoResponse

\* The browser requests a page the matcher sends through the proxy, and
\* applies the Set-Cookie of the answer.
proxyRequest ==
    \E path \in Paths, cms \in CmsOutcomes :
        /\ matcher(path)
        /\ request' = [pathname |-> path, token |-> cookies, cms |-> cms]
        /\ response' = proxy(path, cookies, cms)
        /\ cookies' = IF response'.setCookie.set /\ response'.setCookie.maxAge = 0
                      THEN NoCookie ELSE cookies
        /\ UNCHANGED <<timeVars, labelVars, routeVars, pureVars, layoutVars, reviewVars>>

NextProxy == proxyRequest

SpecProxy == InitProxy /\ [][NextProxy]_vars

-----------------------------------------------------------------------------
(* Reference notions the properties are stated with.                        *)

\* Wall clock of instant t in zone tz: its hour and the day count of its
\* calendar date.
LocalHour(t, tz) == ((t + tzOffset(tz)) \div 60) % 24
LocalDay(t, tz) == (t + tzOffset(tz)) \div MinutesPerDay

\* The calendar date with day count n, written YYYY-MM-DD.
IsoDate(n) ==
    LET c   == CivilFromDays(n)
        two(k) == IF k < 10 THEN "0" \o ToString(k) ELSE ToString(k)
    IN  ToString(c.year) \o "-" \o two(c.month) \o "-" \o two(c.day)

\* The effective day of instant t: the local date at or after the boundary
\* hour, the date before it otherwise.
EffectiveDayCount(t, b, tz) ==
    IF LocalHour(t, tz) < b THEN LocalDay(t, tz) - 1 ELSE LocalDay(t, tz)

\* The day count a date string of the window denotes.
DayNumberOf(str) ==
    CHOOSE n \in (FirstDay - 4) .. (FirstDay + HorizonDays + 4) : IsoDate(n) = str

Elapsed == clock - workSession

-----------------------------------------------------------------------------
(* C1: getEffectiveDayForTimestamp(t, b) is the configured-timezone local   *)
(* calendar date of t when t's local hour is >= b and the previous date     *)
(* when it is < b; local b:00 itself belongs to the new day.  Stated for a  *)
(* runtime whose own timezone is UTC.                                       *)
C1_EffectiveDayIsBoundaryAdjustedLocalDate ==
    sysTimezone = "UTC" =>
        effectiveDay = IsoDate(EffectiveDayCount(clock, dayBoundaryHour, timezone))

(* C2: getWorkedOnPhase returns 3 whenever the effective day computed for   *)
(* the session differs from the one computed for now, whatever the window   *)
(* and the elapsed time.                                                    *)
C2_DayBoundaryTakesPrecedence ==
    sessionDay # effectiveDay => phase = 3

\* A boundary crossing 1140 minutes after the session, inside a 1440-minute
\* window, classified as phase 3.
C2_Witness ==
    /\ timezone = "UTC" /\ sysTimezone = "UTC" /\ dayBoundaryHour = 4
    /\ visibilityMinutes = 24 * 60
    /\ Elapsed = 19 * 60
    /\ sessionDay # effectiveDay
    /\ phase = 3

(* C3: on the same effective day the phase is 1 if the elapsed minutes are  *)
(* <= the window and 2 otherwise; elapsed = window is phase 1 and a window  *)
(* of 0 gives phase 2 for any positive elapsed time.                        *)
C3_WindowDecidesWithinDay ==
    sessionDay = effectiveDay =>
        phase = (IF Elapsed <= visibilityMinutes THEN 1 ELSE 2)

\* Exactly at the end of a 60-minute window, still phase 1.
C3_Witness ==
    /\ sessionDay = effectiveDay
    /\ visibilityMinutes = 60
    /\ Elapsed = 60
    /\ phase = 1

(* C4: for a fixed session, as now advances the phase never goes back: once *)
(* 3 it stays 3, and it never returns from 2 to 1.  Stated for a runtime    *)
(* whose own timezone is UTC.                                               *)
C4_PhaseNeverGoesBack ==
    [][(sysTimezone = "UTC" /\ workSession' = workSession) =>
          /\ (phase = 3 => phase' = 3)
          /\ (phase = 2 => phase' # 1)]_vars

(* C5: for a fixed timezone and boundary hour the effective day never       *)
(* decreases as the instant increases, and 24 hours later it is exactly one *)
(* day further, the change falling in the local boundary hour.  Stated for *)
(* a runtime whose own timezone is UTC.                                     *)
C5_EffectiveDayMonotone ==
    [][sysTimezone = "UTC" =>
       /\ DayNumberOf(effectiveDay') >= DayNumberOf(effectiveDay)
       /\ DayNumberOf(getEffectiveDayForTimestamp(clock + MinutesPerDay, dayBoundaryHour,
                                                  timezone, sysTimezone))
            = DayNumberOf(effectiveDay) + 1
       /\ (DayNumberOf(effectiveDay') # DayNumberOf(effectiveDay)
             => LocalHour(clock', timezone) = dayBoundaryHour)]_vars

(* C8 (as stated): getTodayForRecurrence returns yesterday's local midnight *)
(* when the local hour is < the boundary hour, today's local midnight       *)
(* otherwise.                                                               *)
C8_TodayIsLocalMidnight ==
    todayForRecurrence
        = EffectiveDayCount(clock, dayBoundaryHour, timezone) * MinutesPerDay
            - tzOffset(timezone)

(* C8 (amended): getTodayForRecurrence returns the instant of local         *)
(* boundaryHour:00 on yesterday's date when the local hour is < the         *)
(* boundary hour and on today's date otherwise; the boundary hour itself    *)
(* counts as the new day.                                                   *)
C8_TodayIsLocalBoundaryHour ==
    todayForRecurrence
        = EffectiveDayCount(clock, dayBoundaryHour, timezone) * MinutesPerDay
            + dayBoundaryHour * 60 - tzOffset(timezone)

\* 02:00 local with a 4am boundary: yesterday at 04:00 local.
C8_Witness ==
    /\ timezone = "America/New_York" /\ dayBoundaryHour = 4
    /\ LocalHour(clock, timezone) = 2
    /\ todayForRecurrence
         = (LocalDay(clock, timezone) - 1) * MinutesPerDay + 4 * 60 - tzOffset(timezone)

(* C9: getCompletionDateForRecurrence returns the YYYY-MM-DD local date of  *)
(* the instant when its local hour is >= the boundary hour and the previous *)
(* date when it is < the boundary hour.                                     *)
C9_CompletionDateIsBoundaryAdjustedLocalDate ==
    completionDate = IsoDate(EffectiveDayCount(clock, dayBoundaryHour, timezone))

\* 03:59 local with a 4am boundary counts as the previous day.
C9_Witness ==
    /\ timezone = "America/New_York" /\ dayBoundaryHour = 4
    /\ LocalHour(clock, timezone) = 3 /\ clock % 60 = 59
    /\ completionDate = IsoDate(LocalDay(clock, timezone) - 1)

(* C6: for every ISO weekday d in 1..7 the weekly, biweekly and monthly-day *)
(* labels name the weekday d mod 7 of sunday..saturday: 1..6 are monday ..  *)
(* saturday and 7 is sunday.                                                *)
IsoWeekdayName(d) ==
    CASE d = 1 -> "monday" [] d = 2 -> "tuesday" [] d = 3 -> "wednesday"
      [] d = 4 -> "thursday" [] d = 5 -> "friday" [] d = 6 -> "saturday"
      [] d = 7 -> "sunday"

InRange(field, lo, hi) == notNull(field) /\ field.val >= lo /\ field.val <= hi

C6_LabelNamesIsoWeekday ==
    /\ (todo.recurrenceType = "weekly" /\ InRange(todo.recurrenceDayOfWeek, 1, 7))
          => prefix = "every " \o IsoWeekdayName(todo.recurrenceDayOfWeek.val)
    /\ (todo.recurrenceType = "biweekly" /\ InRange(todo.recurrenceDayOfWeek, 1, 7))
          => prefix = "every other " \o IsoWeekdayName(todo.recurrenceDayOfWeek.val)
    /\ (todo.recurrenceType = "monthly day" /\ todo.recurrenceWeekOfMonth = Num(1)
          /\ InRange(todo.recurrenceDayOfWeekMonthly, 1, 7))
          => prefix = "1st " \o IsoWeekdayName(todo.recurrenceDayOfWeekMonthly.val)

\* ISO sunday on a monthly-day rule is labelled sunday.
C6_Witness ==
    /\ todo.recurrenceType = "monthly day"
    /\ todo.recurrenceWeekOfMonth = Num(1)
    /\ todo.recurrenceDayOfWeekMonthly = Num(7)
    /\ prefix = "1st sunday"

(* C7: for every recurrence type, a required field that is null, undefined, *)
(* zero, negative or outside its declared range yields the type's generic   *)
(* fallback label.                                                          *)
C7_InvalidFieldGivesFallback ==
    /\ (todo.recurrenceType = "every x days"
          /\ ~(notNull(todo.recurrenceInterval) /\ todo.recurrenceInterval.val > 0))
          => prefix = "every x days"
    /\ (todo.recurrenceType = "weekly" /\ ~InRange(todo.recurrenceDayOfWeek, 1, 7))
          => prefix = "weekly"
    /\ (todo.recurrenceType = "biweekly" /\ ~InRange(todo.recurrenceDayOfWeek, 1, 7))
          => prefix = "biweekly"
    /\ (todo.recurrenceType = "monthly date" /\ ~InRange(todo.recurrenceDayOfMonth, 1, 31))
          => prefix = "monthly"
    /\ (todo.recurrenceType = "monthly day"
          /\ (~InRange(todo.recurrenceWeekOfMonth, 1, 5)
                \/ ~InRange(todo.recurrenceDayOfWeekMonthly, 1, 7)))
          => prefix = "monthly"
    /\ (todo.recurrenceType = "annually"
          /\ (~InRange(todo.recurrenceMonth, 1, 12)
                \/ ~InRange(todo.recurrenceDayOfMonth, 1, 31)))
          => prefix = "annually"

-----------------------------------------------------------------------------
-----------------------------------------------------------------------------
\* The recurrence types whose date an astronomical calendar implies.
AstronomicalTypes ==
    {"full moon", "new moon", "every season", "winter solstice", "spring equinox",
     "summer solstice", "autumn equinox"}

\* The recurrence types getRecurrencePrefix has a label for.
LabelledTypes ==
    {"daily", "every x days", "weekly", "biweekly", "monthly date", "monthly day",
     "annually"}

\* C11: the prefix is the empty string for the astronomical types, for 'none'
\* and for an unrecognized type, whatever the other fields of the todo hold.
C11_NoPrefixForAstronomicalTypes ==
    (todo.recurrenceType \in AstronomicalTypes \cup {"none"}
       \/ todo.recurrenceType \notin LabelledTypes)
        => prefix = ""

\* C11: a winter-solstice todo whose other fields hold numbers was described.
C11_Witness ==
    /\ todo.recurrenceType = "winter solstice"
    /\ todo.recurrenceDayOfWeek = Num(3)
    /\ todo.recurrenceMonth = Num(3)
    /\ prefix = ""

\* C11: a todo of an unrecognized type was described.
C11_WitnessUnrecognized ==
    /\ todo.recurrenceType \notin LabelledTypes \cup AstronomicalTypes \cup {"none"}
    /\ prefix = ""

-----------------------------------------------------------------------------
\* The English ordinal suffix of a positive number.
OrdinalSuffix(n) ==
    IF n % 10 = 1 /\ n % 100 # 11 THEN "st"
    ELSE IF n % 10 = 2 /\ n % 100 # 12 THEN "nd"
    ELSE IF n % 10 = 3 /\ n % 100 # 13 THEN "rd"
    ELSE "th"

\* C12: for every positive n, getOrdinal(n) is n followed by its English
\* ordinal suffix; 11, 12, 13, 111, 112 and 113 take 'th', 21, 22, 23 and 31
\* take st, nd, rd and st.
C12_OrdinalFollowsEnglishRules ==
    num >= 1 =>
        /\ ordinal = ToString(num) \o OrdinalSuffix(num)
        /\ (num \in {11, 12, 13, 111, 112, 113} => ordinal = ToString(num) \o "th")
        /\ (num \in {1, 21, 31} => ordinal = ToString(num) \o "st")
        /\ (num \in {2, 22} => ordinal = ToString(num) \o "nd")
        /\ (num \in {3, 23} => ordinal = ToString(num) \o "rd")

\* C12: getOrdinal was applied to 112.
C12_Witness ==
    /\ num = 112
    /\ ordinal = "112th"

-----------------------------------------------------------------------------
\* C13: an annually todo is labelled '{month}/{dayOfMonth}', without zero
\* padding, when month is in 1..12 and dayOfMonth is not null, and 'annually'
\* otherwise.
C13_AnnuallyLabel ==
    todo.recurrenceType = "annually" =>
        IF InRange(todo.recurrenceMonth, 1, 12) /\ notNull(todo.recurrenceDayOfMonth)
        THEN prefix = ToString(todo.recurrenceMonth.val) \o "/"
                        \o ToString(todo.recurrenceDayOfMonth.val)
        ELSE prefix = "annually"

\* C13: an annually todo for the 5th of January was described.
C13_Witness ==
    /\ todo.recurrenceType = "annually"
    /\ todo.recurrenceMonth = Num(1)
    /\ todo.recurrenceDayOfMonth = Num(5)
    /\ prefix = "1/5"

\* C13: annually todos with month 13 and with a null day were described.
C13_WitnessFallback ==
    /\ todo.recurrenceType = "annually"
    /\ \/ todo.recurrenceMonth = Num(13) /\ todo.recurrenceDayOfMonth = Num(1)
       \/ todo.recurrenceMonth = Num(7) /\ todo.recurrenceDayOfMonth = Null
    /\ prefix = "annually"

\* C14: a monthly-day todo is labelled '{ordinal(weekOfMonth)} {weekday}' when
\* weekOfMonth is not null and dayOfWeekMonthly is in 1..7, and 'monthly'
\* otherwise.
C14_MonthlyDayLabel ==
    todo.recurrenceType = "monthly day" =>
        IF notNull(todo.recurrenceWeekOfMonth)
             /\ InRange(todo.recurrenceDayOfWeekMonthly, 1, 7)
        THEN prefix = ToString(todo.recurrenceWeekOfMonth.val)
                        \o OrdinalSuffix(todo.recurrenceWeekOfMonth.val) \o " "
                        \o IsoWeekdayName(todo.recurrenceDayOfWeekMonthly.val)
        ELSE prefix = "monthly"

\* C14: a monthly-day todo for the 2nd sunday (ISO weekday 7) was described.
C14_Witness ==
    /\ todo.recurrenceType = "monthly day"
    /\ todo.recurrenceWeekOfMonth = Num(2)
    /\ todo.recurrenceDayOfWeekMonthly = Num(7)
    /\ prefix = "2nd sunday"

-----------------------------------------------------------------------------
\* A string of exactly 4, 2 and 2 digits separated by hyphens.
WellFormedDateString(str) ==
    /\ Len(str) = 10
    /\ \A i \in {1, 2, 3, 4, 6, 7, 9, 10} : str[i] \in Digits
    /\ str[5] = "-"
    /\ str[8] = "-"

\* C15: parsing a string that is not exactly 4-2-2 digit groups separated by
\* hyphens fails with an error, and no instant is returned for it.
C15_MalformedStringFails ==
    (dateString # <<>> /\ ~WellFormedDateString(dateString))
        => (parsed.threw /\ ~parsed.date.valid)

\* C15 (second half alone): no instant is returned for a malformed string,
\* an Invalid Date being counted as no instant.
C15_MalformedStringGivesNoInstant ==
    (dateString # <<>> /\ ~WellFormedDateString(dateString))
        => ~parsed.date.valid

-----------------------------------------------------------------------------
\* C16: the effective day is a function of (instant, timezone, boundary hour)
\* alone: evaluated under any other timezone of the runtime, both
\* getEffectiveDayForTimestamp and getCompletionDateForRecurrence return for
\* the same three inputs the date they returned here.
C16_EffectiveDayIsPure ==
    \A sys \in Timezones :
        /\ getEffectiveDayForTimestamp(clock, dayBoundaryHour, timezone, sys) = effectiveDay
        /\ getCompletionDateForRecurrence(clock, dayBoundaryHour, timezone, sys)
             = completionDate

\* C16 for getCompletionDateForRecurrence alone.
C16_CompletionDateIsPure ==
    \A sys \in Timezones :
        getCompletionDateForRecurrence(clock, dayBoundaryHour, timezone, sys)
          = completionDate

-----------------------------------------------------------------------------
-----------------------------------------------------------------------------
\* C18: skip of a recurring occurrence creates exactly one new occurrence and
\* deletes the old one; complete of a recurring occurrence marks the old one
\* completed, creates exactly one new occurrence and issues no delete.
C18_SkipDeletesCompleteKeeps ==
    /\ (skipResponse = 200) =>
          /\ skipCalls.post = 1
          /\ skipCalls.delete = 1
          /\ skipTodo.status = "deleted"
          /\ skipNewTodo.status = "open"
    /\ (completeResponse = 200 /\ isRecurring(completeTodo)) =>
          /\ completeCalls.post = 1
          /\ completeCalls.put = 1
          /\ completeCalls.delete = 0
          /\ completeTodo.status = "completed"
          /\ completeNewTodo.status = "open"

\* C18: the same daily todo was skipped in one copy and completed in the
\* other.
C18_Witness ==
    /\ skipResponse = 200
    /\ completeResponse = 200
    /\ skipTodo.rule.recurrenceType = "daily"
    /\ skipTodo.status = "deleted"
    /\ completeTodo.status = "completed"
    /\ skipNewTodo.status = "open"
    /\ completeNewTodo.status = "open"
    /\ completeCalls.delete = 0

\* C19: skip of a todo that does not recur answers 400 'Todo is not
\* recurring'; no occurrence is created and none is deleted.
C19_SkipRejectsNonRecurring ==
    (skipResponse # 0 /\ skipResponse # 401 /\ ~isRecurring(skipTodo)) =>
        /\ skipResponse = 400
        /\ skipError = "Todo is not recurring"
        /\ skipNewTodo = NoTodo
        /\ skipTodo.status = "open"
        /\ skipCalls = NoWrites

\* C19: an authenticated skip of a todo of type 'none' was rejected.
C19_Witness ==
    /\ skipTodo.rule.recurrenceType = "none"
    /\ skipResponse = 400
    /\ skipError = "Todo is not recurring"
    /\ skipNewTodo = NoTodo
    /\ skipTodo.status = "open"

-----------------------------------------------------------------------------
\* The date a route advanced from and the date it gave the new occurrence.
AdvancedFrom(old, new, ty) ==
    /\ new.status = "open"
    /\ old.rule.recurrenceType = ty

\* C20: a daily rule advances to currentDate + 1 and a weekly rule to
\* currentDate + 7, whatever "today" the request was made on; 2026-01-05
\* gives 2026-01-06 for daily and 2026-01-12 for weekly.
C20_DailyAndWeeklyAdvance ==
    /\ AdvancedFrom(skipTodo, skipNewTodo, "daily")
          => skipNewTodo.displayDate = skipTodo.displayDate + 1
    /\ AdvancedFrom(completeTodo, completeNewTodo, "daily")
          => completeNewTodo.displayDate = completeTodo.displayDate + 1
    /\ AdvancedFrom(skipTodo, skipNewTodo, "weekly")
          => skipNewTodo.displayDate = skipTodo.displayDate + 7
    /\ AdvancedFrom(completeTodo, completeNewTodo, "weekly")
          => completeNewTodo.displayDate = completeTodo.displayDate + 7
    /\ (AdvancedFrom(skipTodo, skipNewTodo, "daily")
          /\ IsoDate(skipTodo.displayDate) = "2026-01-05")
          => IsoDate(skipNewTodo.displayDate) = "2026-01-06"
    /\ (AdvancedFrom(skipTodo, skipNewTodo, "weekly")
          /\ IsoDate(skipTodo.displayDate) = "2026-01-05")
          => IsoDate(skipNewTodo.displayDate) = "2026-01-12"

\* C20: a weekly todo for mondays shown on 2026-01-05 was skipped and its
\* next occurrence is shown on 2026-01-12.
C20_Witness ==
    /\ skipResponse = 200
    /\ skipTodo.rule.recurrenceType = "weekly"
    /\ skipTodo.rule.recurrenceDayOfWeek = Num(1)
    /\ IsoDate(skipTodo.displayDate) = "2026-01-05"
    /\ IsoDate(skipNewTodo.displayDate) = "2026-01-12"

-----------------------------------------------------------------------------
\* C26: for the same instant, timezone and boundary hour,
\* getEffectiveDayForTimestamp and getCompletionDateForRecurrence return the
\* same date (stated for a runtime whose own timezone is UTC).
C26_EffectiveDayEqualsCompletionDate ==
    sysTimezone = "UTC" => effectiveDay = completionDate

\* C28: the effective day is the local calendar date of the instant or the
\* date one day before it, and with boundary hour 0 it is the local calendar
\* date (stated for a runtime whose own timezone is UTC).
C28_EffectiveDayIsTodayOrYesterday ==
    sysTimezone = "UTC" =>
        /\ effectiveDay \in {IsoDate(LocalDay(clock, timezone)),
                              IsoDate(LocalDay(clock, timezone) - 1)}
        /\ (dayBoundaryHour = 0 => effectiveDay = IsoDate(LocalDay(clock, timezone)))

\* C28 for getCompletionDateForRecurrence, under every runtime timezone.
C28_CompletionDateIsTodayOrYesterday ==
    /\ completionDate \in {IsoDate(LocalDay(clock, timezone)),
                             IsoDate(LocalDay(clock, timezone) - 1)}
    /\ (dayBoundaryHour = 0 => completionDate = IsoDate(LocalDay(clock, timezone)))

\* C29: the calendar date, in the configured timezone, of the Date
\* getTodayForRecurrence returns is the date getCompletionDateForRecurrence
\* returns for the same instant.
C29_TodayAgreesWithCompletionDate ==
    IsoDate(LocalDay(todayForRecurrence, timezone)) = completionDate

\* C29: at 02:30 local time with a 4am boundary both functions give the date of
\* the day before.
C29_Witness ==
    /\ dayBoundaryHour = 4
    /\ timezone = "America/New_York"
    /\ clock > StartInstant
    /\ LocalHour(clock, timezone) = 2
    /\ completionDate = IsoDate(LocalDay(clock, timezone) - 1)
    /\ IsoDate(LocalDay(todayForRecurrence, timezone)) = completionDate

-----------------------------------------------------------------------------
\* The characters of a string put together.
RECURSIVE JoinChars(_)
JoinChars(str) == IF str = <<>> THEN "" ELSE Head(str) \o JoinChars(Tail(str))

\* A well-formed date string that names a day of the calendar.
ValidCalendarDateString(str) ==
    /\ WellFormedDateString(str)
    /\ parseIntAt(str, 6, 2) \in 1 .. 12
    /\ parseIntAt(str, 9, 2) >= 1
    /\ parseIntAt(str, 9, 2) <= DaysInMonth(parseIntAt(str, 1, 4), parseIntAt(str, 6, 2))

-----------------------------------------------------------------------------
(* The layout preference.                                                   *)

FiveMinutesMs == 5 * MinuteMs

EntryAbsent(entry) == entry.kind = "none"

ParsesAsJson(entry) == entry.kind \in {"null", "object"}

\* The entry parses as JSON and its timestamp is less than five minutes old.
EntryUsable(entry, now) ==
    /\ entry.kind = "object"
    /\ entry.timestamp.kind = "number"
    /\ now - entry.timestamp.val < FiveMinutesMs

\* The first render on the client.
MountStep == ~mounted /\ mounted' /\ hasWindow

\* C21, as stated: on the client the initial ruleset is the stored rulesetId
\* when the entry parses as JSON and its timestamp is less than 5 minutes old
\* and the default 'good-morning' otherwise; an absent entry leaves
\* localStorage alone, and every entry that is present but expired or
\* unparsable is removed.
C21_InitialRulesetFromStorage ==
    [][MountStep =>
        LET entry == localStorage[STORAGE_KEY]
        IN  /\ EntryUsable(entry, nowMs) => selectedRulesetId' = entry.rulesetId
            /\ ~EntryUsable(entry, nowMs) => selectedRulesetId' = "good-morning"
            /\ EntryAbsent(entry) => localStorage' = localStorage
            /\ (~EntryAbsent(entry) /\ ~EntryUsable(entry, nowMs))
                  => localStorage'[STORAGE_KEY] = NoItem]_vars

\* C21, amended: as above, except that an entry that is the empty string is
\* treated like an absent one: the default is used and the entry stays.
C21_InitialRulesetFromStorageAmended ==
    [][MountStep =>
        LET entry == localStorage[STORAGE_KEY]
            missing == EntryAbsent(entry) \/ entry = TextItem("")
        IN  /\ EntryUsable(entry, nowMs) => selectedRulesetId' = entry.rulesetId
            /\ ~EntryUsable(entry, nowMs) => selectedRulesetId' = "good-morning"
            /\ (missing \/ EntryUsable(entry, nowMs)) => localStorage' = localStorage
            /\ (~missing /\ ~EntryUsable(entry, nowMs))
                  => localStorage'[STORAGE_KEY] = NoItem]_vars

\* C21 witness: the provider has just mounted on an entry whose timestamp
\* was exactly five minutes old; the default is selected and the entry gone.
C21_Witness ==
    /\ mounted
    /\ hasWindow
    /\ layoutEffectDue
    /\ initialStored.kind = "object"
    /\ initialStored.timestamp.kind = "number"
    /\ nowMs - initialStored.timestamp.val = FiveMinutesMs
    /\ selectedRulesetId = "good-morning"
    /\ localStorage[STORAGE_KEY] = NoItem

\* The empty-string entry is left in place by the first render.
C21_WitnessEmptyString ==
    /\ mounted
    /\ hasWindow
    /\ layoutEffectDue
    /\ initialStored = TextItem("")
    /\ selectedRulesetId = "good-morning"
    /\ localStorage[STORAGE_KEY] = TextItem("")

\* The useLayoutEffect callback runs.
LayoutEffectStep == layoutEffectDue /\ ~layoutEffectDue'

\* The useEffect callback runs.
EffectStep == effectDue /\ ~effectDue'

PresetIds == {"good-morning", "roulette", "stuff", "done"}

\* C22: when the useLayoutEffect callback runs with a `view` parameter that
\* is the id of a preset, that id becomes selectedRulesetId and localStorage
\* holds it with the current time, whatever localStorage held; with any other
\* `view` parameter, or none, selectedRulesetId and localStorage stay as they are.
C22_ViewParamTakesPrecedence ==
    [][LayoutEffectStep =>
        LET viewParam == closure.searchParams
        IN  IF viewParam.present /\ viewParam.value \in PresetIds
            THEN /\ selectedRulesetId' = viewParam.value
                 /\ localStorage'[STORAGE_KEY] = ObjectItem(viewParam.value, Num(nowMs))
            ELSE /\ selectedRulesetId' = selectedRulesetId
                 /\ localStorage' = localStorage]_vars

\* C22 witness: the page was opened with view=stuff while localStorage held a
\* fresh 'roulette'; after the layout effect 'stuff' is selected and stored.
C22_Witness ==
    /\ isHydrated
    /\ ~layoutEffectDue
    /\ effectDue
    /\ closure.searchParams = Param("stuff")
    /\ closure.selectedRulesetId = "roulette"
    /\ initialStored.rulesetId = "roulette"
    /\ selectedRulesetId = "stuff"
    /\ localStorage[STORAGE_KEY] = ObjectItem("stuff", Num(nowMs))

\* An invalid `view` parameter left the stored preference selected.
C22_WitnessInvalid ==
    /\ isHydrated
    /\ ~layoutEffectDue
    /\ effectDue
    /\ closure.searchParams = Param("invalid-preset")
    /\ selectedRulesetId = "roulette"
    /\ localStorage[STORAGE_KEY] = initialStored

\* C23: when the useEffect callback runs, it calls router.replace (towards
\* view=selectedRulesetId) exactly when the provider is hydrated, the pathname
\* is '/todo' and the URL's `view` parameter differs from selectedRulesetId;
\* otherwise it starts no navigation.  No more than one router.replace is
\* issued for one change of selectedRulesetId.
C23_ReplaceOnlyOnTodoWhenViewDiffers ==
    /\ [][EffectStep =>
            LET needed == /\ closure.isHydrated
                          /\ closure.pathname = "/todo"
                          /\ locationView # Param(closure.selectedRulesetId)
            IN  /\ closure.isHydrated => closure.selectedRulesetId = selectedRulesetId
                /\ needed => /\ replaceCount' = replaceCount + 1
                             /\ replacePending' = [pending |-> TRUE,
                                                   view |-> selectedRulesetId]
                /\ ~needed => /\ replaceCount' = replaceCount
                              /\ replacePending' = replacePending]_vars
    /\ [](replaceCount <= 1)

\* C23 witness: the user changed the layout on /todo, one router.replace
\* towards the new id is under way and nothing is left to run.
C23_Witness ==
    /\ Quiet
    /\ userSteps >= 1
    /\ pathname = "/todo"
    /\ replaceCount = 1
    /\ replacePending = [pending |-> TRUE, view |-> selectedRulesetId]
    /\ locationView # Param(selectedRulesetId)

\* The user changed the layout on another page and no navigation started.
C23_WitnessOtherPage ==
    /\ Quiet
    /\ userSteps >= 1
    /\ pathname = "/practice"
    /\ selectedRulesetId = "done"
    /\ locationView # Param(selectedRulesetId)
    /\ replaceCount = 0
    /\ ~replacePending.pending

\* C24: in a browser, once the effects have run, localStorage holds under
\* 'todo-layout-ruleset-id' an object whose rulesetId is the current
\* selectedRulesetId; the persistence effect writes that object with the time
\* of the write when it runs hydrated, and writes nothing when it runs before
\* hydration.
C24_SelectionIsPersisted ==
    /\ [](Quiet /\ hasWindow =>
            /\ isHydrated
            /\ localStorage["todo-layout-ruleset-id"].kind = "object"
            /\ localStorage["todo-layout-ruleset-id"].rulesetId = selectedRulesetId
            /\ localStorage["todo-layout-ruleset-id"].timestamp.kind = "number"
            /\ localStorage["todo-layout-ruleset-id"].timestamp.val <= nowMs)
    /\ [][EffectStep =>
            IF closure.isHydrated
            THEN localStorage'["todo-layout-ruleset-id"]
                    = ObjectItem(closure.selectedRulesetId, Num(nowMs))
            ELSE localStorage' = localStorage]_vars

\* C24 witness: the user picked 'done' a minute or more after the page was
\* opened; the effects have run and localStorage holds 'done' with the
\* current time.
C24_Witness ==
    /\ Quiet
    /\ hasWindow
    /\ userSteps >= 1
    /\ nowMs > StartMinute * MinuteMs
    /\ selectedRulesetId = "done"
    /\ localStorage[STORAGE_KEY] = ObjectItem("done", Num(nowMs))

-----------------------------------------------------------------------------
(* The recurring-review layout.                                             *)

\* The number of tasks transformedData holds for a recurrence type.
TaskCount(recurrenceType) ==
    (IF /\ transformedData.recurringReviewSections.defined
        /\ transformedData.recurringReviewSections.entries[recurrenceType].present
     THEN sumOf(transformedData.recurringReviewSections.entries[recurrenceType].sections)
     ELSE 0)
    + (IF /\ transformedData.recurringReviewIncidentals.defined
          /\ transformedData.recurringReviewIncidentals.entries[recurrenceType].present
       THEN transformedData.recurringReviewIncidentals.entries[recurrenceType].length
       ELSE 0)

FixedOrder ==
    <<"daily", "every x days", "weekly", "biweekly", "monthly", "annually",
      "full moon", "new moon", "every season", "winter solstice", "spring equinox",
      "summer solstice", "autumn equinox">>

PositionInOrder(recurrenceType) ==
    CHOOSE i \in DOMAIN FixedOrder : FixedOrder[i] = recurrenceType

\* The headings go down the fixed order, and every type that has a task has
\* its heading.
HeadingsInOrder ==
    /\ \A k, l \in DOMAIN reviewOutput.todoSections :
          k < l => PositionInOrder(reviewOutput.todoSections[k].type)
                     < PositionInOrder(reviewOutput.todoSections[l].type)
    /\ \A recurrenceType \in ReviewKeys :
          (reviewOutput.container /\ TaskCount(recurrenceType) >= 1)
             => \E k \in DOMAIN reviewOutput.todoSections :
                   reviewOutput.todoSections[k].type = recurrenceType

\* C25: once RecurringReviewLayout has rendered, every heading it shows is
\* that of a recurrence type with at least one task, the headings follow the
\* fixed order, and when no type has any task the output is 'no recurring
\* tasks' and nothing else.
C25_HeadingOnlyForTypesWithTasks ==
    reviewOutput.rendered =>
        /\ \A k \in DOMAIN reviewOutput.todoSections :
              TaskCount(reviewOutput.todoSections[k].type) >= 1
        /\ HeadingsInOrder
        /\ (\A recurrenceType \in ReviewKeys : TaskCount(recurrenceType) = 0)
              => /\ reviewOutput.p = "no recurring tasks"
                 /\ ~reviewOutput.container
                 /\ reviewOutput.todoSections = <<>>

\* What does hold: the headings follow the fixed order, every type with a
\* task has its heading, and with two empty or missing maps the output is
\* 'no recurring tasks'.
C25_HeadingsFollowFixedOrder ==
    reviewOutput.rendered =>
        /\ HeadingsInOrder
        /\ (mapSize(transformedData.recurringReviewSections) = 0
            /\ mapSize(transformedData.recurringReviewIncidentals) = 0)
              => reviewOutput.p = "no recurring tasks"

\* A heading over no task: 'weekly' holds an empty list of sections.
C25_WitnessEmptyHeading ==
    /\ reviewOutput.rendered
    /\ \E k \in DOMAIN reviewOutput.todoSections :
          /\ reviewOutput.todoSections[k].h3 = "weekly"
          /\ reviewOutput.todoSections[k].items = 0
          /\ TaskCount("weekly") = 0

-----------------------------------------------------------------------------
(* The proxy.                                                               *)

\* C27: once the proxy has answered a request: for '/login' and for a path
\* under '/api/' it lets the request proceed, with no token check and no
\* cookie set; for any other path it lets the request proceed exactly when an
\* auth_token cookie came with it and the CMS answered OK; with no cookie it
\* redirects to /login without a check; and with a cookie and a check that
\* was not OK or threw, it redirects to /login and clears auth_token with
\* maxAge 0, so that the browser drops the cookie.
C27_ProxyGuardsPages ==
    response.kind # "none" =>
        LET path == request.pathname
            open == \/ path = <<"login">>
                    \/ (Len(path) >= 2 /\ path[1] = "api")
            toLogin == response.kind = "redirect" /\ response.location = <<"login">>
        IN  /\ open => /\ response.kind = "next"
                       /\ ~response.fetched
                       /\ ~response.setCookie.set
                       /\ cookies = request.token
            /\ ~open =>
                 /\ response.kind = "next"
                       <=> (request.token.present /\ request.cms = "ok")
                 /\ response.kind = "next"
                       => (response.fetched /\ ~response.setCookie.set
                           /\ cookies = request.token)
                 /\ ~request.token.present
                       => (toLogin /\ ~response.fetched /\ ~response.setCookie.set)
                 /\ (request.token.present /\ request.cms # "ok")
                       => /\ toLogin
                          /\ response.fetched
                          /\ response.setCookie = [set |-> TRUE, name |-> "auth_token",
                                                   value |-> "", maxAge |-> 0]
                          /\ cookies = NoCookie

\* C27 witness: a request for /todo came with a cookie, the check threw, and
\* the proxy redirected to /login and cleared the cookie.
C27_Witness ==
    /\ request.pathname = <<"todo">>
    /\ request.token = Cookie("token-a")
    /\ request.cms = "throws"
    /\ response.kind = "redirect"
    /\ response.setCookie.set
    /\ cookies = NoCookie

\* A request for a path under /api/ went through without a cookie.
C27_WitnessApi ==
    /\ request.pathname = <<"api", "todos">>
    /\ ~request.token.present
    /\ response.kind = "next"
    /\ ~response.fetched

====
